---- MODULE Spec2Model ----
(***************************************************************************)
(* Model of the evaluation engine (services/evaluation_engine.py), of the  *)
(* pydantic schemas it builds (models/schemas.py) and of the two           *)
(* evaluation endpoints of main.py.                                        *)
(*                                                                         *)
(* Number representation (Python floats become scaled integers):           *)
(*   similarity / confidence : units of 1/10000        (1.0  = 10000)      *)
(*   unrounded scores        : units of 1/10000 point  (100.0 = 1000000)   *)
(*   weights                 : units of 1/100          (0.4  = 40)         *)
(*   unrounded overall score : units of 1/1000000 point                    *)
(*   returned (rounded) score: units of 1/100 point    (100.0 = 10000)     *)
(*   years                   : units of 1/1200 year    (1 month = 100)     *)
(* Strings are TLA+ strings; a character is a string of length 1.          *)
(***************************************************************************)
EXTENDS Integers, Sequences, FiniteSets, TLC

VARIABLES engine, pc, request, idx, evaluations, processed_count,
          failed_count, call, response, peer, probe

vars == <<engine, pc, request, idx, evaluations, processed_count,
          failed_count, call, response, peer, probe>>

(***************************************************************************)
(* Python string primitives                                                *)
(***************************************************************************)
CharAt(s, i) == SubSeq(s, i, i)

LowerChars == "abcdefghijklmnopqrstuvwxyz"

UpperChars == "ABCDEFGHIJKLMNOPQRSTUVWXYZ"

DigitChars == "0123456789"

IsIn(c, chars) == \E i \in 1..Len(chars) : CharAt(chars, i) = c

\* str.lower() on one character
LowerChar(c) ==
    IF IsIn(c, UpperChars)
    THEN CharAt(LowerChars, CHOOSE i \in 1..Len(UpperChars) : CharAt(UpperChars, i) = c)
    ELSE c

RECURSIVE Lower(_)
\* str.lower()
Lower(s) == IF Len(s) = 0 THEN "" ELSE LowerChar(Head(s)) \o Lower(Tail(s))

IsSpace(c) == c = " "

\* \w of the regular expression: letters, digits and underscore
IsWord(c) == IsIn(c, LowerChars) \/ IsIn(c, UpperChars) \/ IsIn(c, DigitChars) \/ c = "_"

RECURSIVE LStrip(_)
LStrip(s) == IF Len(s) > 0 /\ IsSpace(Head(s)) THEN LStrip(Tail(s)) ELSE s

RECURSIVE RStrip(_)
RStrip(s) ==
    IF Len(s) > 0 /\ IsSpace(CharAt(s, Len(s)))
    THEN RStrip(SubSeq(s, 1, Len(s) - 1))
    ELSE s

\* str.strip()
Strip(s) == RStrip(LStrip(s))

RECURSIVE RemovePunct(_)
\* re.sub(r"[^\w\s]", "", s)
RemovePunct(s) ==
    IF Len(s) = 0 THEN ""
    ELSE (IF IsWord(Head(s)) \/ IsSpace(Head(s)) THEN Head(s) ELSE "")
         \o RemovePunct(Tail(s))

\* a in b  (Python substring test; the empty string is in every string)
Contains(b, a) ==
    \E i \in 1..(Len(b) - Len(a) + 1) : SubSeq(b, i, i + Len(a) - 1) = a

RECURSIVE JoinWith(_, _)
\* sep.join(items)
JoinWith(items, sep) ==
    IF Len(items) = 0 THEN ""
    ELSE IF Len(items) = 1 THEN items[1]
    ELSE items[1] \o sep \o JoinWith(Tail(items), sep)

\* item in list
InList(x, list) == \E i \in 1..Len(list) : list[i] = x

(***************************************************************************)
(* difflib.SequenceMatcher(None, a, b).ratio() for strings shorter than    *)
(* the 200 characters at which the autojunk heuristic starts.  With the    *)
(* two lengths summing to at most 1000 the floor to 1/10000 keeps every    *)
(* comparison of the ratio with 0.3, 0.6 and 0.7 exact.                    *)
(***************************************************************************)
\* the blocks a[i..i+k-1] = b[j..j+k-1] with k >= 1
CommonBlocks(a, b) ==
    { t \in (1..Len(a)) \X (1..Len(b)) \X (1..Len(a)) :
        /\ t[1] + t[3] - 1 <= Len(a)
        /\ t[2] + t[3] - 1 <= Len(b)
        /\ SubSeq(a, t[1], t[1] + t[3] - 1) = SubSeq(b, t[2], t[2] + t[3] - 1) }

\* the block with k maximal, then i minimal, then j minimal
longest_of(blocks) ==
    IF blocks = {} THEN <<1, 1, 0>>
    ELSE CHOOSE t \in blocks :
            \A u \in blocks :
                \/ u[3] < t[3]
                \/ u[3] = t[3] /\ t[1] < u[1]
                \/ u[3] = t[3] /\ t[1] = u[1] /\ t[2] <= u[2]

find_longest_match(a, b) == longest_of(CommonBlocks(a, b))

RECURSIVE MatchingSize(_, _)
\* the longest block m, plus the matches to its left and to its right
split_at(a, b, m) ==
    IF m[3] = 0 THEN 0
    ELSE m[3]
         + MatchingSize(SubSeq(a, 1, m[1] - 1), SubSeq(b, 1, m[2] - 1))
         + MatchingSize(SubSeq(a, m[1] + m[3], Len(a)), SubSeq(b, m[2] + m[3], Len(b)))

\* sum of the sizes of get_matching_blocks()
MatchingSize(a, b) ==
    IF Len(a) = 0 \/ Len(b) = 0 THEN 0
    ELSE split_at(a, b, find_longest_match(a, b))

\* ratio() = 2.0 * matches / (len(a) + len(b)), 1.0 when both are empty
SequenceRatio(a, b) ==
    IF Len(a) + Len(b) = 0 THEN 10000
    ELSE (2 * MatchingSize(a, b) * 10000) \div (Len(a) + Len(b))

(***************************************************************************)
(* Values and outcomes                                                     *)
(***************************************************************************)
\* Optional[T]: None is the empty tuple, a present value v is <<v>>
None == <<>>

Some(v) == <<v>>

\* a call either returns a value or raises an exception
Nothing == [nothing |-> TRUE]

Raise == [raised |-> TRUE, value |-> Nothing]

Return(v) == [raised |-> FALSE, value |-> v]

RECURSIVE SumSeq(_)
SumSeq(s) == IF Len(s) = 0 THEN 0 ELSE Head(s) + SumSeq(Tail(s))

RECURSIVE Dedupe(_)
\* list(dict.fromkeys(items)): first occurrences, order preserved
Dedupe(items) ==
    IF Len(items) = 0 THEN <<>>
    ELSE LET front == Dedupe(SubSeq(items, 1, Len(items) - 1))
             last  == items[Len(items)]
         IN IF InList(last, front) THEN front ELSE Append(front, last)

RECURSIVE StripNonEmpty(_)
\* [item.strip() for item in v if item and item.strip()]
StripNonEmpty(v) ==
    IF Len(v) = 0 THEN <<>>
    ELSE (IF Len(Strip(Head(v))) > 0 THEN <<Strip(Head(v))>> ELSE <<>>)
         \o StripNonEmpty(Tail(v))

\* the validator clean_list_items of ResumeData and of JobRequirements
clean_list_items(v) == IF Len(v) > 0 THEN Dedupe(StripNonEmpty(v)) ELSE <<>>

(***************************************************************************)
(* EvaluationEngine.__init__: the two tables, in insertion order           *)
(***************************************************************************)
skill_synonyms_table ==
    << <<"javascript", <<"js", "node.js", "nodejs", "react", "vue", "angular">> >>,
       <<"python", <<"py", "django", "flask", "fastapi">> >>,
       <<"java", <<"spring", "hibernate", "maven", "gradle">> >>,
       <<"c#", <<"csharp", "dotnet", ".net", "asp.net">> >>,
       <<"sql", <<"mysql", "postgresql", "sqlite", "oracle", "mssql">> >>,
       <<"aws", <<"amazon web services", "ec2", "s3", "lambda">> >>,
       <<"docker", <<"containerization", "containers">> >>,
       <<"kubernetes", <<"k8s", "container orchestration">> >>,
       <<"machine learning", <<"ml", "ai", "artificial intelligence">> >>,
       <<"data science", <<"data analysis", "analytics", "statistics">> >> >>

education_hierarchy_table ==
    << <<"phd", 5>>, <<"doctorate", 5>>, <<"doctoral", 5>>, <<"masters", 4>>,
       <<"master", 4>>, <<"mba", 4>>, <<"bachelor", 3>>, <<"bachelors", 3>>,
       <<"associate", 2>>, <<"diploma", 1>>, <<"certificate", 1>> >>

EvaluationEngine ==
    [skill_synonyms |-> skill_synonyms_table,
     education_hierarchy |-> education_hierarchy_table]

(***************************************************************************)
(* Skill normalisation and similarity                                      *)
(***************************************************************************)
normalize_skill(skill) == RemovePunct(Strip(Lower(skill)))

\* some group [base_skill] + synonyms holds both skills
InSameSynonymGroup(skill1, skill2) ==
    \E g \in 1..Len(engine.skill_synonyms) :
        LET group == <<engine.skill_synonyms[g][1]>> \o engine.skill_synonyms[g][2]
        IN InList(skill1, group) /\ InList(skill2, group)

\* mutant: the substring test comes before the synonym test
calculate_skill_similarity_substring_first(skill1, skill2) ==
    IF skill1 = skill2 THEN 10000
    ELSE IF Contains(skill2, skill1) \/ Contains(skill1, skill2) THEN 8500
    ELSE IF InSameSynonymGroup(skill1, skill2) THEN 9500
    ELSE SequenceRatio(skill1, skill2)

calculate_skill_similarity(skill1, skill2) ==
    IF skill1 = skill2 THEN 10000
    ELSE IF InSameSynonymGroup(skill1, skill2) THEN 9500
    ELSE IF Contains(skill2, skill1) \/ Contains(skill1, skill2) THEN 8500
    ELSE SequenceRatio(skill1, skill2)

(***************************************************************************)
(* schemas.py: the match models, with their Field(ge=, le=) validation     *)
(***************************************************************************)
\* a keyword-argument record kw names in kw.given the arguments supplied
Given(kw, names) == names \subseteq kw.given

SkillMatch(skill_name, required, matched, confidence_score, similarity_score) ==
    IF confidence_score < 0 \/ confidence_score > 10000
       \/ similarity_score < 0 \/ similarity_score > 10000
    THEN Raise
    ELSE Return([skill_name |-> skill_name, required |-> required,
                 matched |-> matched, confidence_score |-> confidence_score,
                 similarity_score |-> similarity_score])

\* experience_score is the 0-100 score / 100.0, kept here in 1/10000 point
ExperienceMatch(kw) ==
    IF ~Given(kw, {"total_years", "relevant_years", "experience_score"}) THEN Raise
    ELSE IF kw.experience_score < 0 \/ kw.experience_score > 1000000 THEN Raise
    ELSE Return([total_years |-> kw.total_years,
                 relevant_years |-> kw.relevant_years,
                 required_years |-> kw.required_years,
                 experience_score |-> kw.experience_score,
                 relevant_positions |-> kw.relevant_positions])

EducationMatch(kw) ==
    IF ~Given(kw, {"degree_match", "field_match", "education_score"}) THEN Raise
    ELSE IF kw.education_score < 0 \/ kw.education_score > 1000000 THEN Raise
    ELSE Return([degree_match |-> kw.degree_match,
                 field_match |-> kw.field_match,
                 education_score |-> kw.education_score,
                 matched_degrees |-> kw.matched_degrees])

\* the call ExperienceMatch() made by Field(default_factory=ExperienceMatch)
ExperienceMatchNoArgs ==
    [given |-> {}, total_years |-> 0, relevant_years |-> 0, required_years |-> None,
     experience_score |-> 0, relevant_positions |-> <<>>]

\* the call EducationMatch() made by Field(default_factory=EducationMatch)
EducationMatchNoArgs ==
    [given |-> {}, degree_match |-> FALSE, field_match |-> FALSE,
     education_score |-> 0, matched_degrees |-> <<>>]

(***************************************************************************)
(* EvaluationEngine._evaluate_skills                                       *)
(***************************************************************************)
RECURSIVE MaxSeq(_, _)
\* the running maximum kept by "if similarity > best_similarity"
MaxSeq(s, best) ==
    IF Len(s) = 0 THEN best
    ELSE MaxSeq(Tail(s), IF Head(s) > best THEN Head(s) ELSE best)

\* best_similarity of one job skill over the normalized candidate skills
best_similarity(job_skill, candidate_skills) ==
    MaxSeq([i \in 1..Len(candidate_skills) |->
                calculate_skill_similarity(normalize_skill(job_skill),
                                           normalize_skill(candidate_skills[i]))],
           0)

\* mutant: a similarity of exactly 0.7 counts as a match
skill_match_of_inclusive(job_skill, is_required, best) ==
    SkillMatch(job_skill, is_required, best >= 7000, best, best)

\* is_matched and confidence of one job skill, from its best similarity
skill_match_of(job_skill, is_required, best) ==
    SkillMatch(job_skill, is_required, best > 7000, best, best)

\* the SkillMatch built for one job skill (a raised outcome if validation fails)
match_job_skill(job_skill, required_skills, candidate_skills) ==
    skill_match_of(job_skill, InList(job_skill, required_skills),
                   best_similarity(job_skill, candidate_skills))

\* mutant: the sum is divided by the number of matched entries
group_score_over_matched(matches) ==
    IF \A i \in 1..Len(matches) : ~matches[i].matched THEN 0
    ELSE (SumSeq([i \in 1..Len(matches) |->
                    IF matches[i].matched THEN matches[i].confidence_score ELSE 0])
          * 100) \div Cardinality({i \in 1..Len(matches) : matches[i].matched})

\* (sum of confidence of the matched entries / number of entries) * 100
group_score(matches) ==
    IF Len(matches) = 0 THEN 0
    ELSE (SumSeq([i \in 1..Len(matches) |->
                    IF matches[i].matched THEN matches[i].confidence_score ELSE 0])
          * 100) \div Len(matches)

IsRequired(sm) == sm.required

IsPreferred(sm) == ~sm.required

\* "Weight: 70% required, 30% preferred"
overall_skill_score(required_matches, preferred_matches) ==
    IF Len(required_matches) > 0 /\ Len(preferred_matches) > 0
    THEN (7 * group_score(required_matches) + 3 * group_score(preferred_matches)) \div 10
    ELSE IF Len(required_matches) > 0 THEN group_score(required_matches)
    ELSE group_score(preferred_matches)

\* the tuple returned for a non-empty list of matches
skills_scored(skill_matches) ==
    Return([skill_matches |-> skill_matches,
            skill_score |-> overall_skill_score(SelectSeq(skill_matches, IsRequired),
                                                SelectSeq(skill_matches, IsPreferred))])

\* the loop over all_job_skills has built one outcome per job skill
skills_built(built) ==
    IF \E i \in 1..Len(built) : built[i].raised THEN Raise
    ELSE skills_scored([i \in 1..Len(built) |-> built[i].value])

\* mutant: the early return for a job without skills is missing
skills_of_no_shortcut(candidate_skills, required_skills, all_job_skills) ==
    skills_built([i \in 1..Len(all_job_skills) |->
                     match_job_skill(all_job_skills[i], required_skills,
                                     candidate_skills)])

skills_of(candidate_skills, required_skills, all_job_skills) ==
    IF Len(all_job_skills) = 0
    THEN Return([skill_matches |-> <<>>, skill_score |-> 1000000])
    ELSE skills_built([i \in 1..Len(all_job_skills) |->
                          match_job_skill(all_job_skills[i], required_skills,
                                          candidate_skills)])

evaluate_skills(candidate_skills, job_requirements) ==
    skills_of(candidate_skills, job_requirements.required_skills,
              job_requirements.required_skills \o job_requirements.preferred_skills)

(***************************************************************************)
(* EvaluationEngine._is_relevant_experience / _evaluate_experience         *)
(***************************************************************************)
\* value or ""  /  value or 0 on an Optional
OrEmpty(opt) == IF Len(opt) = 0 THEN "" ELSE opt[1]

OrZero(opt) == IF Len(opt) = 0 THEN 0 ELSE opt[1]

is_relevant_experience(experience, job_requirements) ==
    IF Len(OrEmpty(experience.job_title)) = 0 THEN FALSE
    ELSE LET job_title        == Lower(experience.job_title[1])
             job_req_title    == Lower(OrEmpty(job_requirements.title))
             responsibilities == Lower(JoinWith(experience.responsibilities, " "))
             job_description  == Lower(OrEmpty(job_requirements.description))
             exp_technologies == experience.technologies
             required_skills  == job_requirements.required_skills
         IN \/ /\ Len(job_req_title) > 0
               /\ calculate_skill_similarity(job_title, job_req_title) > 6000
            \/ /\ Len(job_description) > 0
               /\ Len(responsibilities) > 0
               /\ SequenceRatio(responsibilities, job_description) > 3000
            \/ \E t \in 1..Len(exp_technologies) : \E r \in 1..Len(required_skills) :
                  calculate_skill_similarity(Lower(exp_technologies[t]),
                                             Lower(required_skills[r])) > 7000

\* a / b rounded towards minus infinity, for b # 0 of either sign
FloorDiv(a, b) == IF b > 0 THEN a \div b ELSE (0 - a) \div (0 - b)

\* relevant_years / required_years >= 1.0, required_years # 0
ratio_at_least_one(relevant_years, required_years) ==
    IF required_years > 0
    THEN relevant_years >= required_years * 1200
    ELSE relevant_years <= required_years * 1200

\* the 0-100 experience score
experience_score_of(relevant_years, required_years) ==
    IF required_years = 0 THEN 1000000
    ELSE IF ratio_at_least_one(relevant_years, required_years) THEN 1000000
    ELSE 500000 + FloorDiv(relevant_years * 5000, required_years * 12)

\* min(total_years, total_years * 0.8)
estimate_of(total_years) ==
    IF total_years < (total_years * 8) \div 10
    THEN total_years ELSE (total_years * 8) \div 10

\* exp.job_title or "Unknown Position", for each relevant position
relevant_positions_of(relevant) ==
    [i \in 1..Len(relevant) |->
        IF Len(OrEmpty(relevant[i].job_title)) > 0
        THEN relevant[i].job_title[1]
        ELSE "Unknown Position"]

\* duration_months / 12.0 summed over the relevant positions that have one
summed_years(relevant) ==
    SumSeq([i \in 1..Len(relevant) |-> OrZero(relevant[i].duration_months) * 100])

\* mutant: the sum of the durations is never replaced by the estimate
relevant_years_of_summed_only(relevant, total_years) == summed_years(relevant)

\* "If no duration info, estimate from total years"
relevant_years_of(relevant, total_years) ==
    IF summed_years(relevant) = 0 /\ Len(relevant) > 0
    THEN estimate_of(total_years) ELSE summed_years(relevant)

experience_checked(experience_match, experience_score) ==
    IF experience_match.raised THEN Raise
    ELSE Return([experience_match |-> experience_match.value,
                 experience_score |-> experience_score])

experience_result(total_years, relevant_years, required_years, relevant_positions) ==
    experience_checked(
        ExperienceMatch([given |-> {"total_years", "relevant_years", "required_years",
                                    "experience_score", "relevant_positions"},
                         total_years |-> total_years,
                         relevant_years |-> relevant_years,
                         required_years |-> Some(required_years),
                         experience_score |->
                             experience_score_of(relevant_years, required_years),
                         relevant_positions |-> relevant_positions]),
        experience_score_of(relevant_years, required_years))

experience_of(relevant, total_years, required_years) ==
    experience_result(total_years, relevant_years_of(relevant, total_years),
                      required_years, relevant_positions_of(relevant))

evaluate_experience(experiences, total_years, job_requirements) ==
    experience_of(SelectSeq(experiences,
                            LAMBDA exp : is_relevant_experience(exp, job_requirements)),
                  total_years,
                  OrZero(job_requirements.required_experience_years))

(***************************************************************************)
(* EvaluationEngine._evaluate_education and its helpers                    *)
(***************************************************************************)
RECURSIVE first_level(_, _)
\* the value of the first table keyword found in the text, 0 when none is
first_level(table, text) ==
    IF Len(table) = 0 THEN 0
    ELSE IF Contains(text, Head(table)[1]) THEN Head(table)[2]
    ELSE first_level(Tail(table), text)

get_education_level(education_text) ==
    first_level(engine.education_hierarchy, Lower(education_text))

matches_education_level(candidate_degree, required_education) ==
    get_education_level(candidate_degree) >= get_education_level(required_education)

matches_field_of_study(candidate_field, required_education) ==
    LET field == Lower(candidate_field)
        req   == Lower(required_education)
    IN \/ Contains(req, field)
       \/ Contains(field, req)
       \/ SequenceRatio(field, req) > 6000

RECURSIVE Flatten(_)
Flatten(ss) == IF Len(ss) = 0 THEN <<>> ELSE Head(ss) \o Flatten(Tail(ss))

HasDegree(edu) == Len(OrEmpty(edu.degree)) > 0

degree_hit(edu, req) == matches_education_level(edu.degree[1], req)

field_hit(edu, req) ==
    /\ Len(OrEmpty(edu.field_of_study)) > 0
    /\ matches_field_of_study(edu.field_of_study[1], req)

\* mutant: nothing is granted when neither the degree nor the field matches
education_score_of_unmatched_zero(degree_match, field_match) ==
    IF degree_match /\ field_match THEN 1000000
    ELSE IF degree_match THEN 700000
    ELSE IF field_match THEN 500000
    ELSE 0

education_score_of(degree_match, field_match) ==
    IF degree_match /\ field_match THEN 1000000
    ELSE IF degree_match THEN 700000
    ELSE IF field_match THEN 500000
    ELSE 200000

education_checked(education_match, education_score) ==
    IF education_match.raised THEN Raise
    ELSE Return([education_match |-> education_match.value,
                 education_score |-> education_score])

education_result(degree_match, field_match, matched_degrees) ==
    education_checked(
        EducationMatch([given |-> {"degree_match", "field_match",
                                   "education_score", "matched_degrees"},
                        degree_match |-> degree_match, field_match |-> field_match,
                        education_score |-> education_score_of(degree_match, field_match),
                        matched_degrees |-> matched_degrees]),
        education_score_of(degree_match, field_match))

\* "No specific education required"
education_not_required ==
    education_checked(
        EducationMatch([given |-> {"degree_match", "field_match",
                                   "education_score", "matched_degrees"},
                        degree_match |-> TRUE, field_match |-> TRUE,
                        education_score |-> 1000000,
                        matched_degrees |-> <<"No specific education required">>]),
        1000000)

\* the two loops over the entries that have a degree (the others are skipped
\* by "continue") and over the required entries
education_of(with_degree, required_education) ==
    education_result(
        \E i \in 1..Len(with_degree) : \E r \in 1..Len(required_education) :
            degree_hit(with_degree[i], required_education[r]),
        \E i \in 1..Len(with_degree) : \E r \in 1..Len(required_education) :
            field_hit(with_degree[i], required_education[r]),
        Flatten([i \in 1..Len(with_degree) |->
            Flatten([r \in 1..Len(required_education) |->
                IF degree_hit(with_degree[i], required_education[r])
                THEN <<with_degree[i].degree[1]>> ELSE <<>>])]))

evaluate_education(education_list, job_requirements) ==
    IF Len(job_requirements.required_education) = 0
    THEN education_not_required
    ELSE education_of(SelectSeq(education_list, HasDegree),
                      job_requirements.required_education)

(***************************************************************************)
(* Rounding and number formatting                                          *)
(***************************************************************************)
\* x / d rounded to the nearest integer, ties to even (Python round, "{:.1f}")
RoundHalfEven(x, d) ==
    LET q == x \div d
        r == x % d
    IN IF 2 * r < d THEN q
       ELSE IF 2 * r > d THEN q + 1
       ELSE IF q % 2 = 0 THEN q ELSE q + 1

\* f"{years:.1f}" of a number of years kept in 1/1200 year
FormatYears(years) ==
    LET tenths == RoundHalfEven(IF years < 0 THEN 0 - years ELSE years, 120)
    IN (IF years < 0 THEN "-" ELSE "")
       \o ToString(tenths \div 10) \o "." \o ToString(tenths % 10)

(***************************************************************************)
(* Gap analysis, recommendations and summary                               *)
(***************************************************************************)
\* mutant: the fallback line is appended without looking at the list
lines_or_always(lines, fallback) == Append(lines, fallback)

\* "if not lines: lines.append(fallback)"
lines_or(lines, fallback) == IF Len(lines) = 0 THEN <<fallback>> ELSE lines

SkillNames(matches) == [i \in 1..Len(matches) |-> matches[i].skill_name]

IsMissingRequired(sm) == sm.required /\ ~sm.matched

\* mutant: only required skills count as strong
IsStrong_required_only(sm) == sm.required /\ sm.matched /\ sm.confidence_score > 8000

IsStrong(sm) == sm.matched /\ sm.confidence_score > 8000

generate_gap_analysis(skill_matches, experience_match, education_match, job_requirements) ==
    LET missing_required_skills == SkillNames(SelectSeq(skill_matches, IsMissingRequired))
        required_years == OrZero(experience_match.required_years)
        gaps ==
            (IF Len(missing_required_skills) > 0
             THEN <<"Missing required skills: " \o JoinWith(missing_required_skills, ", ")>>
             ELSE <<>>)
            \o (IF required_years # 0
                   /\ experience_match.relevant_years < required_years * 1200
                THEN <<"Needs "
                       \o FormatYears(required_years * 1200 - experience_match.relevant_years)
                       \o " more years of relevant experience">>
                ELSE <<>>)
            \o (IF ~education_match.degree_match
                   /\ Len(job_requirements.required_education) > 0
                THEN <<"Education level does not meet requirements">>
                ELSE <<>>)
    IN lines_or(gaps, "No significant gaps identified")

generate_recommendations(skill_matches, experience_match, education_match) ==
    LET strong_skills == SkillNames(SelectSeq(skill_matches, IsStrong))
        first_three == SubSeq(strong_skills, 1,
                              IF Len(strong_skills) < 3 THEN Len(strong_skills) ELSE 3)
        recommendations ==
            (IF Len(strong_skills) > 0
             THEN <<"Strong skills: " \o JoinWith(first_three, ", ")>>
             ELSE <<>>)
            \o (IF experience_match.relevant_years > 0
                THEN <<"Has " \o FormatYears(experience_match.relevant_years)
                       \o " years of relevant experience">>
                ELSE <<>>)
            \o (IF education_match.degree_match
                THEN <<"Education requirements met">>
                ELSE <<>>)
    IN lines_or(recommendations, "Consider for interview to assess potential")

\* overall_score is the unrounded score, in 1/1000000 point
generate_evaluation_summary(overall_score) ==
    IF overall_score >= 80000000
    THEN "Excellent match - highly recommended candidate"
    ELSE IF overall_score >= 60000000
    THEN "Good match - recommended for consideration"
    ELSE IF overall_score >= 40000000
    THEN "Moderate match - may be suitable with additional assessment"
    ELSE "Limited match - consider only if candidate pool is small"

(***************************************************************************)
(* JSON values of a candidate record and the input models of schemas.py    *)
(***************************************************************************)
\* a JSON value that is missing or null, a string, or an object
JNull == [t |-> "null", s |-> ""]

JStr(str) == [t |-> "str", s |-> str]

JObject == [t |-> "object", s |-> ""]

\* validation of an Optional[str] field: null and strings pass, an object fails
IsOptionalStr(json) == json.t \in {"null", "str"}

\* JobRequirements(**raw): the list validators strip, drop blanks and dedupe
JobRequirements(raw) ==
    [title |-> raw.title,
     description |-> raw.description,
     required_skills |-> clean_list_items(raw.required_skills),
     preferred_skills |-> clean_list_items(raw.preferred_skills),
     required_experience_years |-> raw.required_experience_years,
     required_education |-> clean_list_items(raw.required_education)]

\* ResumeData(): every field takes its default
ResumeDataDefaults ==
    [skills |-> <<>>, experience |-> <<>>, education |-> <<>>,
     total_experience_years |-> None]

\* mutant: a payload that cannot be parsed is replaced by the defaults
ResumeData_lenient(payload) ==
    IF payload.t # "dict" \/ payload.skills.t # "list" THEN Return(ResumeDataDefaults)
    ELSE Return([skills |-> clean_list_items(payload.skills.v),
                 experience |-> payload.experience,
                 education |-> payload.education,
                 total_experience_years |-> payload.total_experience_years])

\* ResumeData(**payload) for payload = candidate_data.get("resume_data", {}):
\* a missing key gives {}, a null payload cannot be unpacked, a skills entry
\* that is not a list fails validation
ResumeData(payload) ==
    IF payload.t = "absent" THEN Return(ResumeDataDefaults)
    ELSE IF payload.t # "dict" THEN Raise
    ELSE IF payload.skills.t # "list" THEN Raise
    ELSE Return([skills |-> clean_list_items(payload.skills.v),
                 experience |-> payload.experience,
                 education |-> payload.education,
                 total_experience_years |-> payload.total_experience_years])

(***************************************************************************)
(* schemas.py: EvaluationResult and BatchEvaluationResult                  *)
(***************************************************************************)
\* mutant: the le=100.0 constraint is missing
ScoreInRange_no_upper_bound(score) == score >= 0

ScoreInRange(score) == score >= 0 /\ score <= 10000

\* Field(default_factory=ExperienceMatch) / Field(default_factory=EducationMatch)
experience_match_default == ExperienceMatch(ExperienceMatchNoArgs)

education_match_default == EducationMatch(EducationMatchNoArgs)

\* the placeholders a schema with optional match fields would store
ExperienceMatchEmpty ==
    [total_years |-> 0, relevant_years |-> 0, required_years |-> None,
     experience_score |-> 0, relevant_positions |-> <<>>]

EducationMatchEmpty ==
    [degree_match |-> FALSE, field_match |-> FALSE, education_score |-> 0,
     matched_degrees |-> <<>>]

\* mutant: the two match fields are optional, so a result built without them
\* is accepted
EvaluationResult_optional_matches(kw) ==
    IF ~(/\ ScoreInRange(kw.overall_score)
         /\ ScoreInRange(kw.skill_score)
         /\ ScoreInRange(kw.experience_score)
         /\ ScoreInRange(kw.education_score))
    THEN Raise
    ELSE Return([candidate_id |-> JNull,
                 job_id |-> JNull,
                 overall_score |-> kw.overall_score,
                 skill_score |-> kw.skill_score,
                 experience_score |-> kw.experience_score,
                 education_score |-> kw.education_score,
                 skill_matches |-> kw.skill_matches,
                 experience_match |-> IF "experience_match" \in kw.given
                                      THEN kw.experience_match ELSE ExperienceMatchEmpty,
                 education_match |-> IF "education_match" \in kw.given
                                     THEN kw.education_match ELSE EducationMatchEmpty,
                 gap_analysis |-> kw.gap_analysis,
                 recommendations |-> kw.recommendations,
                 evaluation_summary |-> kw.evaluation_summary])

\* EvaluationResult(**kw); the four scores are in 1/100 point
EvaluationResult(kw) ==
    LET experience_match == IF "experience_match" \in kw.given
                            THEN Return(kw.experience_match)
                            ELSE experience_match_default
        education_match  == IF "education_match" \in kw.given
                            THEN Return(kw.education_match)
                            ELSE education_match_default
    IN IF ~(/\ ScoreInRange(kw.overall_score)
            /\ ScoreInRange(kw.skill_score)
            /\ ScoreInRange(kw.experience_score)
            /\ ScoreInRange(kw.education_score))
       THEN Raise
       ELSE IF experience_match.raised \/ education_match.raised THEN Raise
       ELSE Return([candidate_id |-> JNull,
                    job_id |-> JNull,
                    overall_score |-> kw.overall_score,
                    skill_score |-> kw.skill_score,
                    experience_score |-> kw.experience_score,
                    education_score |-> kw.education_score,
                    skill_matches |-> kw.skill_matches,
                    experience_match |-> experience_match.value,
                    education_match |-> education_match.value,
                    gap_analysis |-> kw.gap_analysis,
                    recommendations |-> kw.recommendations,
                    evaluation_summary |-> kw.evaluation_summary])

\* BatchEvaluationResult(**kw): job_id is validated as Optional[str], the
\* evaluations are model instances and are taken as they are
BatchEvaluationResult(kw) ==
    IF ~IsOptionalStr(kw.job_id) THEN Raise
    ELSE Return([job_id |-> kw.job_id,
                 evaluations |-> kw.evaluations,
                 total_candidates |-> kw.total_candidates,
                 processed_candidates |-> kw.processed_candidates,
                 failed_candidates |-> kw.failed_candidates,
                 processing_time_seconds |-> kw.processing_time_seconds])

(***************************************************************************)
(* EvaluationEngine.evaluate_candidate                                     *)
(***************************************************************************)
DefaultWeights == [skills |-> Some(40), experience |-> Some(40), education |-> Some(20)]

\* mutant: a key missing from the mapping weighs nothing
weights_get_no_default(weights, key, default) ==
    IF Len(weights[key]) = 0 THEN 0 ELSE weights[key][1]

\* weights.get(key, default)
weights_get(weights, key, default) ==
    IF Len(weights[key]) = 0 THEN default ELSE weights[key][1]

\* skill_score * w_skills + experience_score * w_experience + education_score * w_education
overall_score_of(skill_score, experience_score, education_score, weights) ==
    skill_score * weights_get(weights, "skills", 40)
    + experience_score * weights_get(weights, "experience", 40)
    + education_score * weights_get(weights, "education", 20)

\* the return statement of the try block
try_return(job_requirements, skills, experience, education, overall_score) ==
    EvaluationResult(
        [given |-> {"overall_score", "skill_score", "experience_score",
                    "education_score", "skill_matches", "experience_match",
                    "education_match", "gap_analysis", "recommendations",
                    "evaluation_summary"},
         overall_score |-> RoundHalfEven(overall_score, 10000),
         skill_score |-> RoundHalfEven(skills.skill_score, 100),
         experience_score |-> RoundHalfEven(experience.experience_score, 100),
         education_score |-> RoundHalfEven(education.education_score, 100),
         skill_matches |-> skills.skill_matches,
         experience_match |-> experience.experience_match,
         education_match |-> education.education_match,
         gap_analysis |-> generate_gap_analysis(skills.skill_matches,
                                                experience.experience_match,
                                                education.education_match,
                                                job_requirements),
         recommendations |-> generate_recommendations(skills.skill_matches,
                                                      experience.experience_match,
                                                      education.education_match),
         evaluation_summary |-> generate_evaluation_summary(overall_score)])

\* the three evaluations have run: Raise as soon as one of them raised
try_steps(job_requirements, weights, skills, experience, education) ==
    IF skills.raised \/ experience.raised \/ education.raised THEN Raise
    ELSE try_return(job_requirements, skills.value, experience.value, education.value,
                    overall_score_of(skills.value.skill_score,
                                     experience.value.experience_score,
                                     education.value.education_score, weights))

\* the body of the try block: the outcome of the return statement, or Raise
\* as soon as one step raises
evaluate_candidate_try(resume_data, job_requirements, weights_arg) ==
    try_steps(job_requirements,
              IF Len(weights_arg) = 0 THEN DefaultWeights ELSE weights_arg[1],
              evaluate_skills(resume_data.skills, job_requirements),
              evaluate_experience(resume_data.experience,
                                  OrZero(resume_data.total_experience_years),
                                  job_requirements),
              evaluate_education(resume_data.education, job_requirements))

\* the except block: EvaluationResult built without the two match arguments
evaluate_candidate_except ==
    EvaluationResult(
        [given |-> {"overall_score", "skill_score", "experience_score",
                    "education_score", "gap_analysis", "recommendations",
                    "evaluation_summary"},
         overall_score |-> 0,
         skill_score |-> 0,
         experience_score |-> 0,
         education_score |-> 0,
         skill_matches |-> <<>>,
         experience_match |-> Nothing,
         education_match |-> Nothing,
         gap_analysis |-> <<"Evaluation failed due to processing error">>,
         recommendations |-> <<"Please review candidate manually">>,
         evaluation_summary |-> "Automatic evaluation failed"])

\* the frame of one call: whether the try block raised, and the outcome
frame_of(try) ==
    [active |-> TRUE,
     try_raised |-> try.raised,
     outcome |-> IF try.raised THEN evaluate_candidate_except ELSE try]

evaluate_candidate_frame(resume_data, job_requirements, weights_arg) ==
    frame_of(evaluate_candidate_try(resume_data, job_requirements, weights_arg))

evaluate_candidate(resume_data, job_requirements, weights_arg) ==
    evaluate_candidate_frame(resume_data, job_requirements, weights_arg).outcome

NoCall == [active |-> FALSE, try_raised |-> FALSE, outcome |-> Raise]

(***************************************************************************)
(* Requests the two endpoints are checked on                               *)
(***************************************************************************)
\* longest candidate list of a batch request
MaxCandidates == 2

\* largest elapsed time (seconds) read from the clock by a batch request
MaxElapsed == 1

Exp_dev ==
    [job_title |-> Some("Dev"), duration_months |-> Some(24),
     responsibilities |-> <<"Build APIs">>, technologies |-> <<"Python">>]

Exp_undated ==
    [job_title |-> Some("Developer"), duration_months |-> None,
     responsibilities |-> <<>>, technologies |-> <<"py">>]

Edu_bachelor == [degree |-> Some("Bachelor of Science"), field_of_study |-> Some("CS")]

JList(v) == [t |-> "list", v |-> v]

JNumber == [t |-> "number", v |-> <<>>]

Payload(t, skills, experience, education, total_experience_years) ==
    [t |-> t, skills |-> skills, experience |-> experience, education |-> education,
     total_experience_years |-> total_experience_years]

\* no "resume_data" key in the record
Payload_absent == Payload("absent", JList(<<>>), <<>>, <<>>, None)

\* "resume_data": null
Payload_null == Payload("null", JList(<<>>), <<>>, <<>>, None)

\* "resume_data": {}
Payload_empty == Payload("dict", JList(<<>>), <<>>, <<>>, None)

\* "resume_data": {"skills": 5}
Payload_bad_skills == Payload("dict", JNumber, <<>>, <<>>, None)

Payload_full ==
    Payload("dict", JList(<<" Python", "SQL", "", "SQL", "Docker">>),
            <<Exp_dev>>, <<Edu_bachelor>>, Some(3600))

Payload_junior ==
    Payload("dict", JList(<<"Java", "#">>), <<Exp_undated>>, <<>>, Some(6000))

Payloads ==
    {Payload_absent, Payload_null, Payload_empty, Payload_bad_skills,
     Payload_full, Payload_junior}

Record(resume_data, candidate_id, job_id) ==
    [resume_data |-> resume_data, candidate_id |-> candidate_id, job_id |-> job_id]

CandidateRecords ==
    {Record(Payload_full, JStr("c1"), JStr("j1")),
     Record(Payload_junior, JObject, JStr("j2")),
     Record(Payload_empty, JStr("c3"), JNull),
     Record(Payload_absent, JNull, JStr("j1")),
     Record(Payload_null, JStr("c5"), JStr("j2")),
     Record(Payload_bad_skills, JStr("c6"), JObject)}

CandidateLists == UNION {[1..n -> CandidateRecords] : n \in 0..MaxCandidates}

Job_open ==
    JobRequirements([title |-> None, description |-> None,
                     required_skills |-> <<>>, preferred_skills |-> <<>>,
                     required_experience_years |-> None,
                     required_education |-> <<>>])

Job_dev ==
    JobRequirements([title |-> Some("Dev"), description |-> Some("build apis"),
                     required_skills |-> <<"Python", " SQL ", "Python">>,
                     preferred_skills |-> <<"AWS">>,
                     required_experience_years |-> Some(3),
                     required_education |-> <<"Bachelor CS">>])

\* the schema puts no lower bound on required_experience_years
Job_negative_years ==
    JobRequirements([title |-> Some("Dev"), description |-> None,
                     required_skills |-> <<"py">>, preferred_skills |-> <<>>,
                     required_experience_years |-> Some(-1),
                     required_education |-> <<>>])

Jobs == {Job_open, Job_dev, Job_negative_years}

Weights(skills, experience, education) ==
    Some([skills |-> skills, experience |-> experience, education |-> education])

WeightChoices ==
    {None,
     Weights(Some(60), Some(30), None),
     Weights(Some(100), Some(100), Some(100)),
     Weights(Some(-50), Some(40), Some(20))}

\* the ResumeData values the single-candidate endpoint can receive
Resumes == {ResumeData(p).value : p \in {q \in Payloads : ~ResumeData(q).raised}}

SingleRequests ==
    {[kind |-> "single", job_requirements |-> j, weights |-> w,
      resume_data |-> r, candidates |-> <<>>] :
        j \in Jobs, w \in WeightChoices, r \in Resumes}

BatchRequests ==
    {[kind |-> "batch", job_requirements |-> j, weights |-> w,
      resume_data |-> ResumeDataDefaults, candidates |-> cs] :
        j \in Jobs, w \in WeightChoices, cs \in CandidateLists}

(***************************************************************************)
(* The endpoints of main.py                                                *)
(***************************************************************************)
NoResponse == [kind |-> "none", status |-> 0, body |-> Nothing]

\* no second request is in flight
NoPeer == [pc |-> "idle"]

\* no helper of the engine is called on its own
NoProbe == [op |-> "none"]

\* raise HTTPException(status_code=500, ...)
HTTPException500 == [kind |-> "HTTPException", status |-> 500, body |-> Nothing]

Response200(kind, body) == [kind |-> kind, status |-> 200, body |-> body]

Init ==
    /\ engine = EvaluationEngine
    /\ request \in SingleRequests \cup BatchRequests
    /\ pc = "received"
    /\ idx = 0
    /\ evaluations = <<>>
    /\ processed_count = 0
    /\ failed_count = 0
    /\ call = NoCall
    /\ response = NoResponse
    /\ peer = NoPeer
    /\ probe = NoProbe

\* POST /evaluate/candidate
evaluate_candidate_endpoint ==
    /\ pc = "received"
    /\ request.kind = "single"
    /\ \E frame \in {evaluate_candidate_frame(request.resume_data,
                                              request.job_requirements, request.weights)} :
          /\ call' = frame
          /\ response' = IF frame.outcome.raised
                         THEN HTTPException500
                         ELSE Response200("EvaluationResult", frame.outcome.value)
    /\ pc' = "done"
    /\ UNCHANGED <<engine, request, idx, evaluations, processed_count, failed_count, peer, probe>>

\* POST /evaluate/batch: the locals are set up
batch_start ==
    /\ pc = "received"
    /\ request.kind = "batch"
    /\ evaluations' = <<>>
    /\ processed_count' = 0
    /\ failed_count' = 0
    /\ idx' = 0
    /\ pc' = "loop"
    /\ UNCHANGED <<engine, request, call, response, peer, probe>>

\* mutant: the two identifiers are stored in each other's field
stamped_swapped(evaluation, candidate_data) ==
    [evaluation EXCEPT !.candidate_id = candidate_data.job_id,
                       !.job_id = candidate_data.candidate_id]

\* the evaluation appended for a record: the result stamped with its identifiers
stamped(evaluation, candidate_data) ==
    [evaluation EXCEPT !.candidate_id = candidate_data.candidate_id,
                       !.job_id = candidate_data.job_id]

\* what one pass through the try block of the loop body leaves: the frame of
\* the engine call (none when the payload did not parse) and the evaluation
\* to append, or Raise when the except clause is entered
attempt_of(candidate_data, frame) ==
    [frame |-> frame,
     result |-> IF ~frame.active \/ frame.outcome.raised THEN Raise
                ELSE Return(stamped(frame.outcome.value, candidate_data))]

\* resume_data is the outcome of ResumeData(**candidate_data.get("resume_data", {}))
try_parsed(candidate_data, job_requirements, weights, resume_data) ==
    attempt_of(candidate_data,
               IF resume_data.raised THEN NoCall
               ELSE evaluate_candidate_frame(resume_data.value, job_requirements, weights))

\* the try block of the loop body for one record
try_candidate(candidate_data, job_requirements, weights) ==
    try_parsed(candidate_data, job_requirements, weights,
               ResumeData(candidate_data.resume_data))

\* mutant: the except clause does not count the failure
batch_iterate_uncounted ==
    /\ pc = "loop"
    /\ idx < Len(request.candidates)
    /\ \E attempt \in {try_candidate(request.candidates[idx + 1],
                                     request.job_requirements, request.weights)} :
          /\ call' = attempt.frame
          /\ IF ~attempt.result.raised
             THEN /\ evaluations' = Append(evaluations, attempt.result.value)
                  /\ processed_count' = processed_count + 1
                  /\ UNCHANGED failed_count
             ELSE UNCHANGED <<evaluations, processed_count, failed_count>>
    /\ idx' = idx + 1
    /\ UNCHANGED <<engine, pc, request, response, peer, probe>>

\* mutant: a failing record ends the loop
batch_iterate_abort ==
    /\ pc = "loop"
    /\ idx < Len(request.candidates)
    /\ \E attempt \in {try_candidate(request.candidates[idx + 1],
                                     request.job_requirements, request.weights)} :
          /\ call' = attempt.frame
          /\ IF ~attempt.result.raised
             THEN /\ evaluations' = Append(evaluations, attempt.result.value)
                  /\ processed_count' = processed_count + 1
                  /\ idx' = idx + 1
                  /\ UNCHANGED failed_count
             ELSE /\ failed_count' = failed_count + 1
                  /\ idx' = Len(request.candidates)
                  /\ UNCHANGED <<evaluations, processed_count>>
    /\ UNCHANGED <<engine, pc, request, response, peer, probe>>

\* one iteration of "for candidate_data in request.candidates", try and except
batch_iterate ==
    /\ pc = "loop"
    /\ idx < Len(request.candidates)
    /\ \E attempt \in {try_candidate(request.candidates[idx + 1],
                                     request.job_requirements, request.weights)} :
          /\ call' = attempt.frame
          /\ IF ~attempt.result.raised
             THEN /\ evaluations' = Append(evaluations, attempt.result.value)
                  /\ processed_count' = processed_count + 1
                  /\ UNCHANGED failed_count
             ELSE /\ failed_count' = failed_count + 1
                  /\ UNCHANGED <<evaluations, processed_count>>
    /\ idx' = idx + 1
    /\ UNCHANGED <<engine, pc, request, response, peer, probe>>

\* mutant: the job_id of the last record
batch_job_id_of_last(candidates) ==
    IF Len(candidates) > 0 THEN candidates[Len(candidates)].job_id ELSE JNull

\* request.candidates[0].get("job_id") if request.candidates else None
batch_job_id(candidates) ==
    IF Len(candidates) > 0 THEN candidates[1].job_id ELSE JNull

\* after the loop: the BatchEvaluationResult is built and returned, or the
\* outer except turns a failure into HTTPException(500)
batch_finish ==
    /\ pc = "loop"
    /\ idx = Len(request.candidates)
    /\ \E processing_time \in 0..MaxElapsed :
         LET result == BatchEvaluationResult(
                         [job_id |-> batch_job_id(request.candidates),
                          evaluations |-> evaluations,
                          total_candidates |-> Len(request.candidates),
                          processed_candidates |-> processed_count,
                          failed_candidates |-> failed_count,
                          processing_time_seconds |-> processing_time])
         IN response' = IF result.raised
                        THEN HTTPException500
                        ELSE Response200("BatchEvaluationResult", result.value)
    /\ pc' = "done"
    /\ UNCHANGED <<engine, request, idx, evaluations, processed_count, failed_count, call, peer, probe>>

Next ==
    \/ evaluate_candidate_endpoint
    \/ batch_start
    \/ batch_iterate
    \/ batch_finish

Spec == Init /\ [][Next]_vars

(***************************************************************************)
(* Two requests in flight on the one module-level evaluation_engine: the   *)
(* second handler keeps its locals in the record peer.  Each engine call   *)
(* is one step, and the steps of the two handlers interleave freely.       *)
(***************************************************************************)
\* a second request has arrived; its handler has not started
PeerReceived(req) ==
    [pc |-> "received", request |-> req, idx |-> 0, evaluations |-> <<>>,
     processed_count |-> 0, failed_count |-> 0, call |-> NoCall,
     response |-> NoResponse]

Record_full == Record(Payload_full, JStr("c1"), JStr("j1"))

Record_junior == Record(Payload_junior, JObject, JStr("j2"))

Record_null == Record(Payload_null, JStr("c5"), JStr("j2"))

SharedLists ==
    UNION {[1..n -> {Record_full, Record_junior, Record_null}] : n \in 0..MaxCandidates}

BatchOf(job, weights, candidates) ==
    [kind |-> "batch", job_requirements |-> job, weights |-> weights,
     resume_data |-> ResumeDataDefaults, candidates |-> candidates]

SingleOf(job, weights, resume_data) ==
    [kind |-> "single", job_requirements |-> job, weights |-> weights,
     resume_data |-> resume_data, candidates |-> <<>>]

\* a job whose one required skill is matched through the synonym table
Job_py ==
    JobRequirements([title |-> Some("Dev"), description |-> None,
                     required_skills |-> <<"py">>, preferred_skills |-> <<"Node.js">>,
                     required_experience_years |-> Some(2),
                     required_education |-> <<>>])

\* the job and the weights of a request: under the weights that sum to 3 the
\* try block of every evaluation raises
SharedSettings ==
    {<<Job_py, None>>, <<Job_dev, Weights(Some(100), Some(100), Some(100))>>}

SharedRequests ==
    {BatchOf(jw[1], jw[2], cs) : jw \in SharedSettings, cs \in SharedLists}
    \cup {SingleOf(Job_dev, None, ResumeData(Payload_full).value),
          SingleOf(Job_py, None, ResumeData(Payload_junior).value)}

PeerRequests ==
    {BatchOf(Job_py, None, <<Record_full, Record_junior>>),
     BatchOf(Job_dev, Weights(Some(100), Some(100), Some(100)),
             <<Record_full, Record_null>>),
     SingleOf(Job_py, None, ResumeData(Payload_junior).value)}

InitShared ==
    /\ engine = EvaluationEngine
    /\ request \in SharedRequests
    /\ pc = "received"
    /\ idx = 0
    /\ evaluations = <<>>
    /\ processed_count = 0
    /\ failed_count = 0
    /\ call = NoCall
    /\ response = NoResponse
    /\ peer \in {PeerReceived(req) : req \in PeerRequests}
    /\ probe = NoProbe

\* POST /evaluate/candidate, second request
peer_evaluate_candidate_endpoint ==
    /\ peer.pc = "received"
    /\ peer.request.kind = "single"
    /\ \E frame \in {evaluate_candidate_frame(peer.request.resume_data,
                                              peer.request.job_requirements,
                                              peer.request.weights)} :
          peer' = [peer EXCEPT !.call = frame,
                               !.response = IF frame.outcome.raised
                                            THEN HTTPException500
                                            ELSE Response200("EvaluationResult",
                                                             frame.outcome.value),
                               !.pc = "done"]
    /\ UNCHANGED <<engine, pc, request, idx, evaluations, processed_count,
                   failed_count, call, response, probe>>

\* POST /evaluate/batch, second request: the locals are set up
peer_batch_start ==
    /\ peer.pc = "received"
    /\ peer.request.kind = "batch"
    /\ peer' = [peer EXCEPT !.evaluations = <<>>, !.processed_count = 0,
                            !.failed_count = 0, !.idx = 0, !.pc = "loop"]
    /\ UNCHANGED <<engine, pc, request, idx, evaluations, processed_count,
                   failed_count, call, response, probe>>

\* mutant: the two counters and the list are module-level names, shared by
\* every request
peer_batch_iterate_module_level ==
    /\ peer.pc = "loop"
    /\ peer.idx < Len(peer.request.candidates)
    /\ \E attempt \in {try_candidate(peer.request.candidates[peer.idx + 1],
                                     peer.request.job_requirements,
                                     peer.request.weights)} :
          /\ peer' = [peer EXCEPT !.call = attempt.frame, !.idx = @ + 1]
          /\ IF ~attempt.result.raised
             THEN /\ evaluations' = Append(evaluations, attempt.result.value)
                  /\ processed_count' = processed_count + 1
                  /\ UNCHANGED failed_count
             ELSE /\ failed_count' = failed_count + 1
                  /\ UNCHANGED <<evaluations, processed_count>>
    /\ UNCHANGED <<engine, pc, request, idx, call, response, probe>>

\* mutant: the call drops the synonym groups it has looked at
peer_batch_iterate_consuming ==
    /\ peer.pc = "loop"
    /\ peer.idx < Len(peer.request.candidates)
    /\ \E attempt \in {try_candidate(peer.request.candidates[peer.idx + 1],
                                     peer.request.job_requirements,
                                     peer.request.weights)} :
          peer' = IF ~attempt.result.raised
                  THEN [peer EXCEPT !.call = attempt.frame,
                                    !.evaluations = Append(@, attempt.result.value),
                                    !.processed_count = @ + 1,
                                    !.idx = @ + 1]
                  ELSE [peer EXCEPT !.call = attempt.frame,
                                    !.failed_count = @ + 1,
                                    !.idx = @ + 1]
    /\ engine' = [engine EXCEPT !.skill_synonyms = <<>>]
    /\ UNCHANGED <<pc, request, idx, evaluations, processed_count,
                   failed_count, call, response, probe>>

\* one iteration of the loop of the second request, try and except
peer_batch_iterate ==
    /\ peer.pc = "loop"
    /\ peer.idx < Len(peer.request.candidates)
    /\ \E attempt \in {try_candidate(peer.request.candidates[peer.idx + 1],
                                     peer.request.job_requirements,
                                     peer.request.weights)} :
          peer' = IF ~attempt.result.raised
                  THEN [peer EXCEPT !.call = attempt.frame,
                                    !.evaluations = Append(@, attempt.result.value),
                                    !.processed_count = @ + 1,
                                    !.idx = @ + 1]
                  ELSE [peer EXCEPT !.call = attempt.frame,
                                    !.failed_count = @ + 1,
                                    !.idx = @ + 1]
    /\ UNCHANGED <<engine, pc, request, idx, evaluations, processed_count,
                   failed_count, call, response, probe>>

\* after the loop of the second request
peer_batch_finish ==
    /\ peer.pc = "loop"
    /\ peer.idx = Len(peer.request.candidates)
    /\ \E processing_time \in 0..MaxElapsed :
         LET result == BatchEvaluationResult(
                         [job_id |-> batch_job_id(peer.request.candidates),
                          evaluations |-> peer.evaluations,
                          total_candidates |-> Len(peer.request.candidates),
                          processed_candidates |-> peer.processed_count,
                          failed_candidates |-> peer.failed_count,
                          processing_time_seconds |-> processing_time])
         IN peer' = [peer EXCEPT !.response =
                                     IF result.raised
                                     THEN HTTPException500
                                     ELSE Response200("BatchEvaluationResult",
                                                      result.value),
                                 !.pc = "done"]
    /\ UNCHANGED <<engine, pc, request, idx, evaluations, processed_count,
                   failed_count, call, response, probe>>

NextShared ==
    \/ evaluate_candidate_endpoint
    \/ batch_start
    \/ batch_iterate
    \/ batch_finish
    \/ peer_evaluate_candidate_endpoint
    \/ peer_batch_start
    \/ peer_batch_iterate
    \/ peer_batch_finish

SpecShared == InitShared /\ [][NextShared]_vars

(***************************************************************************)
(* The helpers of the engine called on their own, as the unit tests call   *)
(* them: probe holds the helper, its arguments and, once it has returned,  *)
(* its outcome.                                                            *)
(***************************************************************************)
Probe(op, args) == [op |-> op, args |-> args, done |-> FALSE, out |-> Nothing]

\* normalized tokens; "abcdefgxyz" and "abcdefguvw" have sequence ratio 0.7
SimilarityTokens ==
    {"python", "py", "javascript", "js", "nodejs", "react", "reactjs", "java",
     "sql", "mysql", "docker", "aws", "", "abcdefgxyz", "abcdefguvw"}

SimilarityProbes ==
    {Probe("calculate_skill_similarity", [skill1 |-> a, skill2 |-> b]) :
        a \in SimilarityTokens, b \in SimilarityTokens}

SkillsJob(required_skills, preferred_skills) ==
    JobRequirements([title |-> None, description |-> None,
                     required_skills |-> required_skills,
                     preferred_skills |-> preferred_skills,
                     required_experience_years |-> None,
                     required_education |-> <<>>])

SkillsJobs ==
    {SkillsJob(<<>>, <<>>),
     SkillsJob(<<"Python", "React", "SQL">>, <<"Docker", "AWS">>),
     SkillsJob(<<"Python">>, <<"Python">>),
     SkillsJob(<<"Python", "Go">>, <<"Python", "Docker">>),
     SkillsJob(<<>>, <<"abcdefgxyz", "SQL">>),
     SkillsJob(<<"abcdefgxyz", "Node.js", "Python">>, <<>>),
     SkillsJob(<<"Python", "python ", "PYTHON">>, <<"React">>)}

CandidateSkillLists ==
    {clean_list_items(raw) :
        raw \in {<<>>, <<"Python">>, <<"Python", "Java">>, <<"py", "abcdefguvw">>,
                 <<"JS", " SQL", "Docker ", "JS">>,
                 <<"Python", "React", "SQL", "Docker", "AWS">>,
                 <<"golang", "reactjs", "#">>, <<"#">>}}

SkillsProbes ==
    {Probe("evaluate_skills", [candidate_skills |-> c, job_requirements |-> j]) :
        c \in CandidateSkillLists, j \in SkillsJobs}

Exp_negative ==
    [job_title |-> Some("Dev"), duration_months |-> Some(-12),
     responsibilities |-> <<>>, technologies |-> <<>>]

Exp_intern ==
    [job_title |-> Some("Dev"), duration_months |-> Some(6),
     responsibilities |-> <<>>, technologies |-> <<>>]

Exp_cook ==
    [job_title |-> Some("Cook"), duration_months |-> Some(120),
     responsibilities |-> <<>>, technologies |-> <<>>]

Exp_year ==
    [job_title |-> Some("Dev"), duration_months |-> Some(12),
     responsibilities |-> <<>>, technologies |-> <<>>]

ExperienceLists ==
    {<<>>, <<Exp_dev>>, <<Exp_undated>>, <<Exp_cook>>, <<Exp_intern>>,
     <<Exp_negative>>, <<Exp_dev, Exp_intern, Exp_cook>>, <<Exp_dev, Exp_dev>>,
     <<Exp_intern, Exp_negative>>, <<Exp_undated, Exp_cook>>,
     <<Exp_year, Exp_negative>>, <<Exp_undated, Exp_dev>>}

\* total_experience_years or 0, in 1/1200 year
TotalYearsChoices == {0, 3600, 1500, -1200}

ExperienceJob(required_experience_years) ==
    JobRequirements([title |-> Some("Developer"), description |-> None,
                     required_skills |-> <<"Python">>, preferred_skills |-> <<>>,
                     required_experience_years |-> required_experience_years,
                     required_education |-> <<>>])

ExperienceJobs ==
    {ExperienceJob(y) : y \in {None, Some(0), Some(2), Some(3), Some(10), Some(-1), Some(-4)}}

ExperienceProbes ==
    {Probe("evaluate_experience",
           [experiences |-> e, total_years |-> t, job_requirements |-> j]) :
        e \in ExperienceLists, t \in TotalYearsChoices, j \in ExperienceJobs}

Edu(degree, field_of_study) == [degree |-> degree, field_of_study |-> field_of_study]

EducationLists ==
    {<<>>, <<Edu_bachelor>>, <<Edu(None, Some("CS"))>>,
     <<Edu(Some("Diploma"), None)>>, <<Edu(Some("PhD"), Some("Physics"))>>,
     <<Edu(Some("Diploma"), Some("CS"))>>,
     <<Edu(Some("Diploma"), Some("bachelor cs")), Edu_bachelor>>}

EducationJob(required_education) ==
    JobRequirements([title |-> None, description |-> None,
                     required_skills |-> <<>>, preferred_skills |-> <<>>,
                     required_experience_years |-> None,
                     required_education |-> required_education])

EducationJobs ==
    {EducationJob(r) : r \in {<<>>, <<"", " ">>, <<"Bachelor CS">>,
                              <<"Master", "Physics">>}}

EducationProbes ==
    {Probe("evaluate_education", [education_list |-> e, job_requirements |-> j]) :
        e \in EducationLists, j \in EducationJobs}

\* the members of the g-th synonym group as the table writes them
GroupMembers(g) == <<skill_synonyms_table[g][1]>> \o skill_synonyms_table[g][2]

\* one member of a group as the only job skill, another as the only candidate skill
SynonymProbes ==
    {Probe("evaluate_skills",
           [candidate_skills |-> clean_list_items(<<GroupMembers(t[1])[t[3]]>>),
            job_requirements |-> SkillsJob(<<GroupMembers(t[1])[t[2]]>>, <<>>)]) :
        t \in {u \in (1..Len(skill_synonyms_table)) \X (1..7) \X (1..7) :
                 /\ u[2] <= Len(GroupMembers(u[1]))
                 /\ u[3] <= Len(GroupMembers(u[1]))
                 /\ u[2] # u[3]}}

Position(job_title, responsibilities, technologies) ==
    [job_title |-> job_title, duration_months |-> None,
     responsibilities |-> responsibilities, technologies |-> technologies]

Positions ==
    {Position(t, r, k) :
        t \in {None, Some(""), Some("Dev"), Some("Developer"), Some("Cook")},
        r \in {<<>>, <<"Build APIs">>, <<"grill", "fry">>},
        k \in {<<>>, <<"Python">>, <<"Knife", "py">>, <<"Knife">>}}

RelevanceJob(title, description, required_skills) ==
    JobRequirements([title |-> title, description |-> description,
                     required_skills |-> required_skills, preferred_skills |-> <<>>,
                     required_experience_years |-> None,
                     required_education |-> <<>>])

RelevanceJobs ==
    {RelevanceJob(Some("Developer"), Some("build apis"), <<"Python">>),
     RelevanceJob(None, None, <<"Python", "SQL">>),
     RelevanceJob(Some(""), Some("We build apis"), <<>>),
     RelevanceJob(Some("Dev"), None, <<>>)}

RelevanceProbes ==
    {Probe("is_relevant_experience", [experience |-> e, job_requirements |-> j]) :
        e \in Positions, j \in RelevanceJobs}

\* a position whose duration is minus two years
Exp_backdated ==
    [job_title |-> Some("Dev"), duration_months |-> Some(-24),
     responsibilities |-> <<>>, technologies |-> <<>>]

Resume(skills, experience, education, total_experience_years) ==
    [skills |-> clean_list_items(skills), experience |-> experience,
     education |-> education, total_experience_years |-> total_experience_years]

Resume_backdated == Resume(<<"py">>, <<Exp_backdated>>, <<>>, None)

Resume_stack ==
    Resume(<<"Python", "SQL", "AWS", "JS", "Docker">>, <<Exp_intern>>,
           <<Edu(Some("Diploma"), Some("CS"))>>, Some(600))

Job_stack ==
    JobRequirements([title |-> Some("Dev"), description |-> None,
                     required_skills |-> <<"Python", "Go", "SQL">>,
                     preferred_skills |-> <<"AWS", "Rust", "Docker", "JavaScript">>,
                     required_experience_years |-> Some(2),
                     required_education |-> <<"Master">>])

\* a candidate whose unrounded overall score for Job_threshold is
\* 0.4 * 89.875 + 0.4 * 60.119... + 0.2 * 100 = 79.9976...
Exp_seventeen ==
    [job_title |-> Some("Dev"), duration_months |-> Some(17),
     responsibilities |-> <<>>, technologies |-> <<>>]

Resume_threshold ==
    Resume(<<"Python", "nosql", "dockerfile">>, <<Exp_seventeen>>, <<>>, None)

Job_threshold ==
    JobRequirements([title |-> Some("Dev"), description |-> None,
                     required_skills |-> <<"Python">>,
                     preferred_skills |-> <<"Flask", "SQL", "Docker", "Rust">>,
                     required_experience_years |-> Some(7),
                     required_education |-> <<>>])

\* resumes, jobs and weights of direct calls of evaluate_candidate
CandidateResumes ==
    {ResumeDataDefaults, ResumeData(Payload_full).value, ResumeData(Payload_junior).value,
     Resume_backdated, Resume_stack, Resume_threshold}

CandidateJobs ==
    {Job_open, Job_dev, Job_py, Job_negative_years, Job_stack, Job_threshold}

CandidateProbes ==
    {Probe("evaluate_candidate",
           [resume_data |-> r, job_requirements |-> j, weights |-> w]) :
        r \in CandidateResumes, j \in CandidateJobs, w \in WeightChoices}

InitUnits ==
    /\ engine = EvaluationEngine
    /\ request = SingleOf(Job_open, None, ResumeDataDefaults)
    /\ pc = "idle"
    /\ idx = 0
    /\ evaluations = <<>>
    /\ processed_count = 0
    /\ failed_count = 0
    /\ call = NoCall
    /\ response = NoResponse
    /\ peer = NoPeer
    /\ \/ probe \in SimilarityProbes
       \/ probe \in SkillsProbes
       \/ probe \in ExperienceProbes
       \/ probe \in EducationProbes
       \/ probe \in SynonymProbes
       \/ probe \in RelevanceProbes
       \/ probe \in CandidateProbes

\* the value a helper returns, or Raise
Returned(out) == [probe EXCEPT !.done = TRUE, !.out = out]

\* engine._calculate_skill_similarity(skill1, skill2)
probe_calculate_skill_similarity ==
    /\ probe.op = "calculate_skill_similarity"
    /\ ~probe.done
    /\ probe' = Returned(Return(calculate_skill_similarity(probe.args.skill1,
                                                           probe.args.skill2)))
    /\ UNCHANGED <<engine, pc, request, idx, evaluations, processed_count,
                   failed_count, call, response, peer>>

\* engine._evaluate_skills(candidate_skills, job_requirements)
probe_evaluate_skills ==
    /\ probe.op = "evaluate_skills"
    /\ ~probe.done
    /\ probe' = Returned(evaluate_skills(probe.args.candidate_skills,
                                         probe.args.job_requirements))
    /\ UNCHANGED <<engine, pc, request, idx, evaluations, processed_count,
                   failed_count, call, response, peer>>

\* engine._evaluate_experience(experiences, total_years, job_requirements)
probe_evaluate_experience ==
    /\ probe.op = "evaluate_experience"
    /\ ~probe.done
    /\ probe' = Returned(evaluate_experience(probe.args.experiences,
                                             probe.args.total_years,
                                             probe.args.job_requirements))
    /\ UNCHANGED <<engine, pc, request, idx, evaluations, processed_count,
                   failed_count, call, response, peer>>

\* engine._evaluate_education(education_list, job_requirements)
probe_evaluate_education ==
    /\ probe.op = "evaluate_education"
    /\ ~probe.done
    /\ probe' = Returned(evaluate_education(probe.args.education_list,
                                            probe.args.job_requirements))
    /\ UNCHANGED <<engine, pc, request, idx, evaluations, processed_count,
                   failed_count, call, response, peer>>

\* engine._is_relevant_experience(experience, job_requirements)
probe_is_relevant_experience ==
    /\ probe.op = "is_relevant_experience"
    /\ ~probe.done
    /\ probe' = Returned(Return(is_relevant_experience(probe.args.experience,
                                                       probe.args.job_requirements)))
    /\ UNCHANGED <<engine, pc, request, idx, evaluations, processed_count,
                   failed_count, call, response, peer>>

\* engine.evaluate_candidate(resume_data, job_requirements, weights)
probe_evaluate_candidate ==
    /\ probe.op = "evaluate_candidate"
    /\ ~probe.done
    /\ probe' = Returned(evaluate_candidate(probe.args.resume_data,
                                            probe.args.job_requirements,
                                            probe.args.weights))
    /\ UNCHANGED <<engine, pc, request, idx, evaluations, processed_count,
                   failed_count, call, response, peer>>

NextUnits ==
    \/ probe_calculate_skill_similarity
    \/ probe_evaluate_skills
    \/ probe_evaluate_experience
    \/ probe_evaluate_education
    \/ probe_is_relevant_experience
    \/ probe_evaluate_candidate

SpecUnits == InitUnits /\ [][NextUnits]_vars

(***************************************************************************)
(* Vocabulary of the properties                                            *)
(***************************************************************************)
IsBatch == request.kind = "batch"

\* a payload that is present and cannot become a ResumeData
Unparseable(payload) ==
    \/ payload.t = "null"
    \/ payload.t = "dict" /\ payload.skills.t # "list"

Absent(payload) == payload.t = "absent"

\* the outcome of evaluate_candidate on record i alone, same job and weights
AloneOutcome(i) ==
    evaluate_candidate(ResumeData(request.candidates[i].resume_data).value,
                       request.job_requirements, request.weights)

\* record i parses and its evaluation returns
Succeeds(i) ==
    /\ ~ResumeData(request.candidates[i].resume_data).raised
    /\ ~AloneOutcome(i).raised

\* record i parses and the try block of its evaluation raises
InternalFailure(i) ==
    /\ ~ResumeData(request.candidates[i].resume_data).raised
    /\ evaluate_candidate_try(ResumeData(request.candidates[i].resume_data).value,
                              request.job_requirements, request.weights).raised

RECURSIVE SuccessfulUpTo(_)
\* the positions of the successful records among the first n, in input order
SuccessfulUpTo(n) ==
    IF n = 0 THEN <<>>
    ELSE SuccessfulUpTo(n - 1) \o (IF Succeeds(n) THEN <<n>> ELSE <<>>)

WithoutIds(evaluation) == [evaluation EXCEPT !.candidate_id = JNull, !.job_id = JNull]

FourScoresWithin(evaluation) ==
    /\ 0 <= evaluation.overall_score /\ evaluation.overall_score <= 10000
    /\ 0 <= evaluation.skill_score /\ evaluation.skill_score <= 10000
    /\ 0 <= evaluation.experience_score /\ evaluation.experience_score <= 10000
    /\ 0 <= evaluation.education_score /\ evaluation.education_score <= 10000

IsDegraded(evaluation) ==
    /\ evaluation.overall_score = 0
    /\ evaluation.skill_score = 0
    /\ evaluation.experience_score = 0
    /\ evaluation.education_score = 0
    /\ evaluation.gap_analysis = <<"Evaluation failed due to processing error">>
    /\ evaluation.recommendations = <<"Please review candidate manually">>
    /\ evaluation.evaluation_summary = "Automatic evaluation failed"

(***************************************************************************)
(* C1 - C10                                                                *)
(***************************************************************************)
\* C1: every call of evaluate_candidate returns an EvaluationResult; no call
\* propagates an exception, whatever the resume, the job and the weights.
C1_NeverPropagates == call.active => ~call.outcome.raised

\* C2: whenever the try block of evaluate_candidate raises, the call returns
\* the fixed degraded result (four scores 0.0, the one-line gap analysis,
\* the one-line recommendation and the failure summary).
C2_DegradedResultReturned ==
    (call.active /\ call.try_raised) =>
        (~call.outcome.raised /\ IsDegraded(call.outcome.value))

\* C3: after each handled candidate processed_count + failed_count is the
\* number of candidates visited and len(evaluations) = processed_count; every
\* returned BatchEvaluationResult has total = processed + failed and
\* len(evaluations) = processed.
C3_BatchCounting ==
    /\ IsBatch =>
          /\ processed_count + failed_count = idx
          /\ Len(evaluations) = processed_count
    /\ response.kind = "BatchEvaluationResult" =>
          /\ response.body.total_candidates = Len(request.candidates)
          /\ response.body.total_candidates
                = response.body.processed_candidates + response.body.failed_candidates
          /\ Len(response.body.evaluations) = response.body.processed_candidates

C3_Witness ==
    /\ response.kind = "BatchEvaluationResult"
    /\ response.body.processed_candidates = 1
    /\ response.body.failed_candidates = 1

\* C4: a failing candidate never aborts the loop (the handler finishes only
\* after all candidates were visited), and the evaluation emitted for each
\* successful candidate is, identifiers apart, the result evaluate_candidate
\* returns for that candidate alone with the same job and weights.
C4_FailureIsolation ==
    IsBatch =>
       /\ pc = "done" => idx = Len(request.candidates)
       /\ LET ok == SuccessfulUpTo(idx)
          IN /\ Len(evaluations) = Len(ok)
             /\ \A k \in 1..Len(ok) :
                   WithoutIds(evaluations[k]) = AloneOutcome(ok[k]).value

\* a failure before a success, and a failure after a success
C4_Witness ==
    /\ IsBatch
    /\ pc = "done"
    /\ Len(request.candidates) = 2
    /\ ~Succeeds(1)
    /\ Len(evaluations) = 1

\* C5: the batch operation always returns a BatchEvaluationResult, whatever
\* the records hold (the identifiers of the first record included).
C5_BatchNeverRejected ==
    (IsBatch /\ pc = "done") => response.kind = "BatchEvaluationResult"

C7_AbsentOrUnparseableExcluded ==
    IsBatch =>
       /\ failed_count >=
             Cardinality({i \in 1..idx :
                 \/ Absent(request.candidates[i].resume_data)
                 \/ Unparseable(request.candidates[i].resume_data)})
       /\ Len(evaluations) <=
             Cardinality({i \in 1..idx :
                 /\ ~Absent(request.candidates[i].resume_data)
                 /\ ~Unparseable(request.candidates[i].resume_data)})

\* C7 amended: every record whose payload is present and cannot be parsed is
\* excluded from evaluations and counted as failed; a record without a
\* resume_data field is evaluated as the empty resume ResumeData() and, when
\* that evaluation returns, its result is appended.
C7_UnparseableExcluded ==
    IsBatch =>
       /\ failed_count >=
             Cardinality({i \in 1..idx : Unparseable(request.candidates[i].resume_data)})
       /\ Len(evaluations) <=
             Cardinality({i \in 1..idx : ~Unparseable(request.candidates[i].resume_data)})
       /\ (idx >= 1 /\ Absent(request.candidates[idx].resume_data)) =>
             /\ call = evaluate_candidate_frame(ResumeDataDefaults,
                                                request.job_requirements, request.weights)
             /\ ~call.outcome.raised =>
                   /\ Len(evaluations) >= 1
                   /\ WithoutIds(evaluations[Len(evaluations)]) = call.outcome.value

\* an unparseable record was counted as failed, then a record without payload
\* was evaluated and appended
C7_Witness ==
    /\ response.kind = "BatchEvaluationResult"
    /\ Len(request.candidates) = 2
    /\ Unparseable(request.candidates[1].resume_data)
    /\ Absent(request.candidates[2].resume_data)
    /\ response.body.failed_candidates = 1
    /\ Len(response.body.evaluations) = 1

\* C8: evaluations holds one entry per successfully processed candidate, in
\* input order, the k-th entry carrying the candidate_id and job_id of the
\* k-th successful record (null when absent); the result evaluate_candidate
\* returns has both identifiers unset.
C8_OutputCorrespondence ==
    /\ IsBatch =>
          LET ok == SuccessfulUpTo(idx)
          IN /\ Len(evaluations) = Len(ok)
             /\ \A k \in 1..Len(ok) :
                   /\ evaluations[k].candidate_id = request.candidates[ok[k]].candidate_id
                   /\ evaluations[k].job_id = request.candidates[ok[k]].job_id
    /\ response.kind = "BatchEvaluationResult" => response.body.evaluations = evaluations
    /\ (call.active /\ ~call.outcome.raised) =>
          /\ call.outcome.value.candidate_id = JNull
          /\ call.outcome.value.job_id = JNull

\* two entries, the second one emitted after a record with other identifiers
C8_Witness ==
    /\ response.kind = "BatchEvaluationResult"
    /\ Len(response.body.evaluations) = 2
    /\ response.body.evaluations[1].candidate_id # response.body.evaluations[2].candidate_id
    /\ response.body.evaluations[1].candidate_id # response.body.evaluations[1].job_id

\* C9: the job_id of a returned BatchEvaluationResult is the job_id of the
\* first candidate record (null when that record has none), whether or not
\* that candidate was processed, and null for an empty batch.
C9_BatchJobId ==
    response.kind = "BatchEvaluationResult" =>
        response.body.job_id =
            (IF Len(request.candidates) = 0 THEN JNull
             ELSE request.candidates[1].job_id)

\* the first record failed and the second one carries another job_id
C9_Witness ==
    /\ response.kind = "BatchEvaluationResult"
    /\ Len(request.candidates) = 2
    /\ ~Succeeds(1)
    /\ response.body.job_id.t = "str"
    /\ request.candidates[2].job_id # request.candidates[1].job_id

\* C10: every EvaluationResult returned by evaluate_candidate, appended by the
\* batch loop or contained in a batch result has its four scores in [0, 100].
C10_ScoreBounds ==
    /\ (call.active /\ ~call.outcome.raised) => FourScoresWithin(call.outcome.value)
    /\ response.kind = "EvaluationResult" => FourScoresWithin(response.body)
    /\ \A k \in 1..Len(evaluations) : FourScoresWithin(evaluations[k])
    /\ response.kind = "BatchEvaluationResult" =>
          \A k \in 1..Len(response.body.evaluations) :
              FourScoresWithin(response.body.evaluations[k])

\* a result returned under weights that sum to 3
C10_Witness ==
    /\ response.kind = "EvaluationResult"
    /\ request.weights = Weights(Some(100), Some(100), Some(100))
    /\ response.body.overall_score = 7000

(***************************************************************************)
(* C11 - C20                                                               *)
(***************************************************************************)
\* the locals of the first handler, as one record like peer
MainHandler ==
    [pc |-> pc, request |-> request, idx |-> idx, evaluations |-> evaluations,
     processed_count |-> processed_count, failed_count |-> failed_count,
     call |-> call, response |-> response]

\* the resume the last engine call of handler h was made on
CallInput(h) ==
    IF h.request.kind = "single" THEN h.request.resume_data
    ELSE ResumeData(h.request.candidates[h.idx].resume_data).value

\* the last calls of the two handlers had the same three arguments
SameCallInputs ==
    /\ call.active
    /\ peer.call.active
    /\ request.job_requirements = peer.request.job_requirements
    /\ request.weights = peer.request.weights
    /\ CallInput(MainHandler) = CallInput(peer)

\* the position in h.evaluations of the entry of record i, a successful one
EntryOf(h, i) ==
    Cardinality({k \in 1..i :
        ~try_candidate(h.request.candidates[k], h.request.job_requirements,
                       h.request.weights).result.raised})

\* two records of one batch with the same payload produced, identifiers
\* apart, the same entry (or both none)
SameRecordsSameEntries(h) ==
    h.request.kind = "batch" =>
        \A i \in 1..h.idx : \A j \in 1..h.idx :
            (/\ i < j
             /\ h.request.candidates[i].resume_data = h.request.candidates[j].resume_data
             /\ EntryOf(h, i) <= Len(h.evaluations)
             /\ EntryOf(h, j) <= Len(h.evaluations)
             /\ EntryOf(h, i) > EntryOf(h, i - 1)
             /\ EntryOf(h, j) > EntryOf(h, j - 1))
            => WithoutIds(h.evaluations[EntryOf(h, i)])
                  = WithoutIds(h.evaluations[EntryOf(h, j)])

\* C11: two calls of evaluate_candidate with the same resume, job and weights
\* have the same outcome whatever calls of the other request ran on the
\* engine in between, and the synonym table and the education hierarchy of
\* the engine are at every moment the ones built at construction.
C11_Determinism ==
    /\ engine.skill_synonyms = skill_synonyms_table
    /\ engine.education_hierarchy = education_hierarchy_table
    /\ peer.pc # "idle" =>
          /\ SameCallInputs => call.outcome = peer.call.outcome
          /\ SameRecordsSameEntries(MainHandler)
          /\ SameRecordsSameEntries(peer)

\* the second request has made two calls, the last one with the arguments of
\* the last call of the first request, and both calls returned
C11_Witness ==
    /\ peer.pc # "idle"
    /\ SameCallInputs
    /\ peer.idx = 2
    /\ idx = 1
    /\ ~call.outcome.raised
    /\ ~peer.call.outcome.raised
    /\ Len(call.outcome.value.skill_matches) > 0

alone_step(prev, attempt) ==
    IF ~attempt.raised
    THEN [evaluations |-> Append(prev.evaluations, attempt.value),
          processed_count |-> prev.processed_count + 1,
          failed_count |-> prev.failed_count]
    ELSE [prev EXCEPT !.failed_count = @ + 1]

RECURSIVE AloneLocals(_, _)
\* the list and the counters after n iterations of a batch request that runs
\* with no other request in flight
AloneLocals(req, n) ==
    IF n = 0 THEN [evaluations |-> <<>>, processed_count |-> 0, failed_count |-> 0]
    ELSE alone_step(AloneLocals(req, n - 1),
                    try_candidate(req.candidates[n], req.job_requirements,
                                  req.weights).result)

\* the BatchEvaluationResult of a batch request that runs alone (elapsed time 0)
alone_result(req, locals) ==
    BatchEvaluationResult([job_id |-> batch_job_id(req.candidates),
                           evaluations |-> locals.evaluations,
                           total_candidates |-> Len(req.candidates),
                           processed_candidates |-> locals.processed_count,
                           failed_candidates |-> locals.failed_count,
                           processing_time_seconds |-> 0])

alone_response(result) ==
    IF result.raised THEN HTTPException500
    ELSE Response200("BatchEvaluationResult", result.value)

AloneSingleResponse(req) ==
    LET outcome == evaluate_candidate(req.resume_data, req.job_requirements, req.weights)
    IN IF outcome.raised THEN HTTPException500
       ELSE Response200("EvaluationResult", outcome.value)

\* the elapsed time is the one field that depends on the clock
WithoutElapsed(resp) ==
    IF resp.kind = "BatchEvaluationResult"
    THEN [resp EXCEPT !.body.processing_time_seconds = 0]
    ELSE resp

\* the list, the counters and, once finished, the response of the batch
\* handler h are those of locals
SameAsLocals(h, locals) ==
    /\ h.evaluations = locals.evaluations
    /\ h.processed_count = locals.processed_count
    /\ h.failed_count = locals.failed_count
    /\ h.pc = "done" =>
          /\ h.idx = Len(h.request.candidates)
          /\ WithoutElapsed(h.response) = alone_response(alone_result(h.request, locals))

\* handler h is where the same request running alone would be
RunsAsAlone(h) ==
    /\ (h.request.kind = "batch" /\ h.pc \in {"loop", "done"}) =>
          SameAsLocals(h, AloneLocals(h.request, h.idx))
    /\ (h.request.kind = "single" /\ h.pc = "done") =>
          h.response = AloneSingleResponse(h.request)

\* C12: with two requests in flight on the one engine, under every
\* interleaving of their steps, the evaluations, the processed and failed
\* counts and the response of each request are the ones the request produces
\* when it runs alone.
C12_NoInterference ==
    /\ RunsAsAlone(MainHandler)
    /\ peer.pc # "idle" => RunsAsAlone(peer)

\* the first request has finished with one entry and one failure while the
\* second one is in the middle of its loop, after an entry of its own
C12_Witness ==
    /\ response.kind = "BatchEvaluationResult"
    /\ response.body.processed_candidates = 1
    /\ response.body.failed_candidates = 1
    /\ peer.pc = "loop"
    /\ peer.idx = 1
    /\ peer.processed_count = 1

\* a helper has returned from the call named op
Called(op) == probe.op = op /\ probe.done

\* C13: for a job with no required and no preferred skill, skill evaluation
\* returns the score 100.0 and an empty list of matches whatever the
\* candidate's skills; for a job with no required education, education
\* evaluation returns the score 100.0 with degree_match and field_match true
\* whatever the candidate's education.
C13_NoConstraintPerfect ==
    /\ (/\ Called("evaluate_skills")
        /\ probe.args.job_requirements.required_skills = <<>>
        /\ probe.args.job_requirements.preferred_skills = <<>>)
       => /\ ~probe.out.raised
          /\ probe.out.value.skill_score = 1000000
          /\ probe.out.value.skill_matches = <<>>
    /\ (/\ Called("evaluate_education")
        /\ probe.args.job_requirements.required_education = <<>>)
       => /\ ~probe.out.raised
          /\ probe.out.value.education_score = 1000000
          /\ probe.out.value.education_match.degree_match
          /\ probe.out.value.education_match.field_match

\* a candidate with skills evaluated against a job that lists none
C13_Witness ==
    /\ Called("evaluate_skills")
    /\ probe.args.job_requirements.required_skills = <<>>
    /\ probe.args.job_requirements.preferred_skills = <<>>
    /\ Len(probe.args.candidate_skills) >= 2
    /\ probe.out.value.skill_score = 1000000

\* the similarities of one job skill to each of the candidate's skills
SimilaritiesTo(job_skill, candidate_skills) ==
    {calculate_skill_similarity(normalize_skill(job_skill),
                                normalize_skill(candidate_skills[i])) :
        i \in 1..Len(candidate_skills)}

\* the largest of them, 0.0 for a candidate without skills
MaxSimilarity(job_skill, candidate_skills) ==
    IF Len(candidate_skills) = 0 THEN 0
    ELSE CHOOSE m \in SimilaritiesTo(job_skill, candidate_skills) :
            \A x \in SimilaritiesTo(job_skill, candidate_skills) : x <= m

\* C14: every SkillMatch of skill evaluation has matched = (similarity_score
\* > 0.7) and confidence_score = similarity_score = the largest similarity of
\* the job skill to a skill of the candidate (0.0 and not matched for a
\* candidate without skills); a similarity of exactly 0.7 is not a match.
C14_SkillMatchRule ==
    (Called("evaluate_skills") /\ ~probe.out.raised) =>
        \A k \in 1..Len(probe.out.value.skill_matches) :
            LET sm == probe.out.value.skill_matches[k]
            IN /\ sm.matched <=> sm.similarity_score > 7000
               /\ sm.similarity_score = 7000 => ~sm.matched
               /\ sm.confidence_score = sm.similarity_score
               /\ sm.similarity_score
                     = MaxSimilarity(sm.skill_name, probe.args.candidate_skills)
               /\ Len(probe.args.candidate_skills) = 0 =>
                     (sm.similarity_score = 0 /\ ~sm.matched)

\* one entry at exactly 0.7, not matched, next to a matched entry
C14_Witness ==
    /\ Called("evaluate_skills")
    /\ ~probe.out.raised
    /\ \E k \in 1..Len(probe.out.value.skill_matches) :
          /\ probe.out.value.skill_matches[k].similarity_score = 7000
          /\ ~probe.out.value.skill_matches[k].matched
    /\ \E k \in 1..Len(probe.out.value.skill_matches) :
          probe.out.value.skill_matches[k].matched

\* the score the rule of C15 gives, from the relevant years (1/1200 year) and
\* the required years
RuleScore(relevant_years, required_years) ==
    IF required_years = 0 THEN 1000000
    ELSE IF (required_years > 0 /\ relevant_years >= required_years * 1200)
            \/ (required_years < 0 /\ relevant_years <= required_years * 1200)
         THEN 1000000
         ELSE 500000 + FloorDiv(relevant_years * 5000, required_years * 12)

\* C15: the experience score is 100 for a job without required years (absent
\* or 0); otherwise, with ratio = relevant_years / required_years, it is 100
\* when ratio >= 1 and 50 + 50 * ratio when ratio < 1; so for every candidate
\* and every job the score lies in [50, 100] and is below 100 exactly when
\* relevant_years < required_years.
C15_ExperienceScoreRule ==
    (Called("evaluate_experience") /\ ~probe.out.raised) =>
        LET required_years ==
                OrZero(probe.args.job_requirements.required_experience_years)
            relevant_years == probe.out.value.experience_match.relevant_years
            score == probe.out.value.experience_score
        IN /\ score = RuleScore(relevant_years, required_years)
           /\ 500000 <= score
           /\ score <= 1000000
           /\ score < 1000000 <=> relevant_years < required_years * 1200

GapFallback == "No significant gaps identified"

RecommendationFallback == "Consider for interview to assess potential"

\* the list holds a line other than the fallback
HasSpecific(lines, fallback) == \E i \in 1..Len(lines) : lines[i] # fallback

\* the conditions under which a gap line is written
GapFound(evaluation, job_requirements) ==
    \/ \E k \in 1..Len(evaluation.skill_matches) :
          evaluation.skill_matches[k].required /\ ~evaluation.skill_matches[k].matched
    \/ /\ OrZero(evaluation.experience_match.required_years) # 0
       /\ evaluation.experience_match.relevant_years
             < OrZero(evaluation.experience_match.required_years) * 1200
    \/ /\ ~evaluation.education_match.degree_match
       /\ Len(job_requirements.required_education) > 0

\* the conditions under which a recommendation line is written
StrengthFound(evaluation) ==
    \/ \E k \in 1..Len(evaluation.skill_matches) :
          /\ evaluation.skill_matches[k].matched
          /\ evaluation.skill_matches[k].confidence_score > 8000
    \/ evaluation.experience_match.relevant_years > 0
    \/ evaluation.education_match.degree_match

NonEmptyWithFallback(evaluation, job_requirements) ==
    /\ Len(evaluation.gap_analysis) >= 1
    /\ Len(evaluation.recommendations) >= 1
    /\ InList(GapFallback, evaluation.gap_analysis)
          <=> ~HasSpecific(evaluation.gap_analysis, GapFallback)
    /\ InList(RecommendationFallback, evaluation.recommendations)
          <=> ~HasSpecific(evaluation.recommendations, RecommendationFallback)
    /\ HasSpecific(evaluation.gap_analysis, GapFallback)
          <=> GapFound(evaluation, job_requirements)
    /\ HasSpecific(evaluation.recommendations, RecommendationFallback)
          <=> StrengthFound(evaluation)

\* C16: in every result evaluate_candidate returns, gap_analysis and
\* recommendations each hold at least one line, and the fallback line of a
\* list is in it exactly when no specific line was written to that list.
C16_NonEmptyLists ==
    /\ (call.active /\ ~call.outcome.raised) =>
          NonEmptyWithFallback(call.outcome.value, request.job_requirements)
    /\ \A k \in 1..Len(evaluations) :
          NonEmptyWithFallback(evaluations[k], request.job_requirements)
    /\ response.kind = "EvaluationResult" =>
          NonEmptyWithFallback(response.body, request.job_requirements)

\* a result with gap lines and no fallback among them, whose one
\* recommendation is the fallback
C16_Witness ==
    /\ response.kind = "EvaluationResult"
    /\ Len(response.body.gap_analysis) >= 2
    /\ ~InList(GapFallback, response.body.gap_analysis)
    /\ response.body.recommendations = <<RecommendationFallback>>

\* the sum of the confidences of the matched entries
MatchedConfidence(entries) ==
    SumSeq([i \in 1..Len(entries) |->
               IF entries[i].matched THEN entries[i].confidence_score ELSE 0])

MatchedCount(entries) == Cardinality({i \in 1..Len(entries) : entries[i].matched})

\* 100 times the average confidence of the matched entries, 0 when none is
AverageOfMatched(entries) ==
    IF MatchedCount(entries) = 0 THEN 0
    ELSE (MatchedConfidence(entries) * 100) \div MatchedCount(entries)

\* 100 times the sum of the confidences of the matched entries over the
\* number of all entries, 0 for no entry
CoverageOf(entries) ==
    IF Len(entries) = 0 THEN 0
    ELSE (MatchedConfidence(entries) * 100) \div Len(entries)

\* 0.7 * required + 0.3 * preferred when both groups have entries, otherwise
\* the score of the group that has
Blend(required_entries, preferred_entries, required_score, preferred_score) ==
    IF Len(required_entries) > 0 /\ Len(preferred_entries) > 0
    THEN (7 * required_score + 3 * preferred_score) \div 10
    ELSE IF Len(required_entries) > 0 THEN required_score
    ELSE preferred_score

\* C17 as claimed: the required score is 100 times the average confidence
\* over the matched required skills (0 when none matched), the preferred
\* score likewise, and the skill score blends them 0.7 / 0.3 when both groups
\* are non-empty and is otherwise the score of the non-empty group.
C17_AverageOverMatched ==
    (/\ Called("evaluate_skills")
     /\ ~probe.out.raised
     /\ Len(probe.out.value.skill_matches) > 0)
    => LET required_entries == SelectSeq(probe.out.value.skill_matches, IsRequired)
           preferred_entries == SelectSeq(probe.out.value.skill_matches, IsPreferred)
       IN probe.out.value.skill_score
             = Blend(required_entries, preferred_entries,
                     AverageOfMatched(required_entries),
                     AverageOfMatched(preferred_entries))

\* C17 amended: the required score is 100 times the sum of the confidences of
\* the matched required entries divided by the number of all required
\* entries, matched or not (0 for no entry), the preferred score likewise
\* over the entries not flagged required, and the skill score blends them
\* 0.7 / 0.3 when both groups have entries and is otherwise the score of the
\* group that has.
C17_SkillAggregate ==
    (/\ Called("evaluate_skills")
     /\ ~probe.out.raised
     /\ Len(probe.out.value.skill_matches) > 0)
    => LET required_entries == SelectSeq(probe.out.value.skill_matches, IsRequired)
           preferred_entries == SelectSeq(probe.out.value.skill_matches, IsPreferred)
       IN probe.out.value.skill_score
             = Blend(required_entries, preferred_entries,
                     CoverageOf(required_entries),
                     CoverageOf(preferred_entries))

\* both groups have entries, one required skill is matched and another is not
C17_Witness ==
    /\ Called("evaluate_skills")
    /\ ~probe.out.raised
    /\ \E i \in 1..Len(probe.out.value.skill_matches) :
          \E j \in 1..Len(probe.out.value.skill_matches) :
             \E k \in 1..Len(probe.out.value.skill_matches) :
                /\ probe.out.value.skill_matches[i].required
                /\ probe.out.value.skill_matches[i].matched
                /\ probe.out.value.skill_matches[j].required
                /\ ~probe.out.value.skill_matches[j].matched
                /\ ~probe.out.value.skill_matches[k].required
                /\ probe.out.value.skill_matches[k].matched
    /\ probe.out.value.skill_score > 0
    /\ probe.out.value.skill_score < 1000000

RECURSIVE Without(_, _)
\* the items of a list that are not in another list, order kept
Without(items, others) ==
    IF Len(items) = 0 THEN <<>>
    ELSE (IF InList(Head(items), others) THEN <<>> ELSE <<Head(items)>>)
         \o Without(Tail(items), others)

\* C18: skill evaluation produces exactly one SkillMatch per distinct job
\* skill of required + preferred, the required skills first and then the
\* preferred ones, each flagged with the list it came from; a skill in both
\* lists gives a single entry, flagged required, counted in the required
\* group only.
C18_OneEntryPerSkill ==
    (Called("evaluate_skills") /\ ~probe.out.raised) =>
        LET required_skills == probe.args.job_requirements.required_skills
            preferred_skills == probe.args.job_requirements.preferred_skills
            skill_matches == probe.out.value.skill_matches
        IN /\ SkillNames(skill_matches)
                 = required_skills \o Without(preferred_skills, required_skills)
           /\ \A k \in 1..Len(skill_matches) :
                 skill_matches[k].required <=> k <= Len(required_skills)
           /\ Len(SelectSeq(skill_matches, IsRequired)) = Len(required_skills)

\* the weight of a criterion: the caller's entry when a mapping with that key
\* was supplied, the default otherwise (1/100)
WeightOf(weights_arg, key) ==
    LET default == [skills |-> 40, experience |-> 40, education |-> 20]
    IN IF weights_arg = None THEN default[key]
       ELSE IF weights_arg[1][key] = None THEN default[key]
       ELSE weights_arg[1][key][1]

\* the four scores of a result are the rounded unrounded scores of the three
\* evaluations and their weighted sum
WeightedAndRounded(evaluation, resume_data, job_requirements, weights_arg) ==
    LET skill_score == evaluate_skills(resume_data.skills, job_requirements).value.skill_score
        experience_score ==
            evaluate_experience(resume_data.experience,
                                OrZero(resume_data.total_experience_years),
                                job_requirements).value.experience_score
        education_score ==
            evaluate_education(resume_data.education, job_requirements).value.education_score
    IN /\ evaluation.skill_score = RoundHalfEven(skill_score, 100)
       /\ evaluation.experience_score = RoundHalfEven(experience_score, 100)
       /\ evaluation.education_score = RoundHalfEven(education_score, 100)
       /\ evaluation.overall_score
             = RoundHalfEven(skill_score * WeightOf(weights_arg, "skills")
                             + experience_score * WeightOf(weights_arg, "experience")
                             + education_score * WeightOf(weights_arg, "education"),
                             10000)

\* C19: the overall score is skill_score * w_skills + experience_score *
\* w_experience + education_score * w_education, the weights being the
\* caller's when a mapping is supplied (a missing key falling back to its
\* default) and 0.4 / 0.4 / 0.2 when none is; the weights are not normalized;
\* the four returned scores are the unrounded ones rounded to 2 decimals.
C19_WeightedOverall ==
    (call.active /\ ~call.outcome.raised) =>
        WeightedAndRounded(call.outcome.value, CallInput(MainHandler),
                           request.job_requirements, request.weights)

\* a result under the mapping {skills 0.6, experience 0.3}, whose weights sum
\* to 1.1 with the default of the missing key: 0 * 0.6 + 50 * 0.3 + 20 * 0.2
C19_Witness ==
    /\ response.kind = "EvaluationResult"
    /\ request.weights = Weights(Some(60), Some(30), None)
    /\ response.body.skill_score = 0
    /\ response.body.experience_score = 5000
    /\ response.body.education_score = 2000
    /\ response.body.overall_score = 1900

\* the synonym groups: each base skill with its synonyms
SynonymGroups ==
    { {skill_synonyms_table[g][1]}
        \cup {skill_synonyms_table[g][2][k] : k \in 1..Len(skill_synonyms_table[g][2])} :
      g \in 1..Len(skill_synonyms_table) }

\* the tier that decides a pair of tokens, the first that matches
TierOf(a, b) ==
    IF a = b THEN 1
    ELSE IF \E group \in SynonymGroups : a \in group /\ b \in group THEN 2
    ELSE IF Contains(a, b) \/ Contains(b, a) THEN 3
    ELSE 4

\* the similarity the tiers give (1/10000)
TierSimilarity(a, b, tier) ==
    CASE tier = 1 -> 10000
      [] tier = 2 -> 9500
      [] tier = 3 -> 8500
      [] OTHER -> SequenceRatio(a, b)

\* C20: similarity is decided by the first matching tier, in the order equal
\* tokens 1.0, same synonym group 0.95, one a substring of the other 0.85,
\* sequence ratio otherwise; the result is in [0, 1]; a pair decided by one of
\* the first three tiers has the same similarity with its arguments swapped.
C20_SimilarityTiers ==
    Called("calculate_skill_similarity") =>
        LET skill1 == probe.args.skill1
            skill2 == probe.args.skill2
        IN /\ ~probe.out.raised
           /\ probe.out.value = TierSimilarity(skill1, skill2, TierOf(skill1, skill2))
           /\ probe.out.value >= 0 /\ probe.out.value <= 10000
           /\ TierOf(skill1, skill2) <= 3
                 => calculate_skill_similarity(skill2, skill1) = probe.out.value

\* "js" and "nodejs" are synonyms and one is a substring of the other: the
\* synonym tier decides
C20_Witness ==
    /\ Called("calculate_skill_similarity")
    /\ probe.args.skill1 = "js" /\ probe.args.skill2 = "nodejs"
    /\ probe.out.value = 9500

\* two distinct members, as written in the table, of one synonym group
SynonymPair(job_skill, candidate_skill) ==
    /\ job_skill # candidate_skill
    /\ \E g \in 1..Len(skill_synonyms_table) :
          InList(job_skill, GroupMembers(g)) /\ InList(candidate_skill, GroupMembers(g))

\* C21: when the only job skill and the only candidate skill are two distinct
\* members of one synonym group as the table writes them, the entry of that
\* job skill records similarity_score 0.95.
C21_SynonymMembersScore ==
    (/\ Called("evaluate_skills")
     /\ Len(probe.args.candidate_skills) = 1
     /\ Len(probe.args.job_requirements.required_skills) = 1
     /\ Len(probe.args.job_requirements.preferred_skills) = 0
     /\ SynonymPair(probe.args.job_requirements.required_skills[1],
                    probe.args.candidate_skills[1]))
        => /\ ~probe.out.raised
           /\ probe.out.value.skill_matches[1].similarity_score = 9500

\* the normalized token of a candidate skill is not the empty string
HasToken(candidate_skill) == Len(normalize_skill(candidate_skill)) > 0

\* C22: a candidate skill whose normalized token is empty never makes a job
\* skill matched: every matched job skill has a similarity above 0.7 to some
\* candidate skill whose token is not empty.
C22_EmptyTokenNeverMatches ==
    (Called("evaluate_skills") /\ ~probe.out.raised) =>
        \A k \in 1..Len(probe.out.value.skill_matches) :
            LET sm == probe.out.value.skill_matches[k]
            IN sm.matched =>
                  MaxSimilarity(sm.skill_name,
                                SelectSeq(probe.args.candidate_skills, HasToken)) > 7000

\* (a) both titles are given and their similarity is above 0.6
TitleSimilar(experience, job_requirements) ==
    /\ Len(OrEmpty(experience.job_title)) > 0
    /\ Len(OrEmpty(job_requirements.title)) > 0
    /\ calculate_skill_similarity(Lower(experience.job_title[1]),
                                  Lower(job_requirements.title[1])) > 6000

\* (b) the joined responsibilities and the job description are both given and
\* their overlap ratio is above 0.3
DescriptionOverlaps(experience, job_requirements) ==
    /\ Len(experience.responsibilities) > 0
    /\ Len(OrEmpty(job_requirements.description)) > 0
    /\ SequenceRatio(Lower(JoinWith(experience.responsibilities, " ")),
                     Lower(job_requirements.description[1])) > 3000

\* (c) some technology has similarity above 0.7 to some required skill
TechnologyMatches(experience, job_requirements) ==
    \E t \in 1..Len(experience.technologies) :
        \E r \in 1..Len(job_requirements.required_skills) :
            calculate_skill_similarity(Lower(experience.technologies[t]),
                                       Lower(job_requirements.required_skills[r])) > 7000

\* C23: a position is judged relevant iff (a) or (b) or (c) holds, each
\* condition alone being sufficient for any position, one without a job title
\* included.
C23_RelevantIffAnyCondition ==
    Called("is_relevant_experience") =>
        (probe.out.value
            <=> \/ TitleSimilar(probe.args.experience, probe.args.job_requirements)
                \/ DescriptionOverlaps(probe.args.experience, probe.args.job_requirements)
                \/ TechnologyMatches(probe.args.experience, probe.args.job_requirements))

\* the positions of a list judged relevant to the job
RelevantAmong(experiences, job_requirements) ==
    SelectSeq(experiences, LAMBDA exp : is_relevant_experience(exp, job_requirements))

\* duration_months / 12 summed over a list of positions (1/1200 year)
TenureSum(positions) ==
    SumSeq([i \in 1..Len(positions) |->
               IF positions[i].duration_months = None THEN 0
               ELSE positions[i].duration_months[1] * 100])

\* min(total_years, 0.8 * total_years)
Estimate(total_years) ==
    LET scaled == (total_years * 8) \div 10
    IN IF total_years <= scaled THEN total_years ELSE scaled

NoDurationData(positions) ==
    \A i \in 1..Len(positions) : positions[i].duration_months = None

\* C24 as stated: relevant tenure is the sum of duration_months / 12 over the
\* relevant positions; the estimate min(total_years, 0.8 * total_years)
\* replaces it exactly when a relevant position was found and no position of
\* the resume carries duration data; without relevant position it is 0.
C24_EstimateWhenNoDurationData ==
    (Called("evaluate_experience") /\ ~probe.out.raised) =>
        LET relevant == RelevantAmong(probe.args.experiences, probe.args.job_requirements)
            relevant_years == probe.out.value.experience_match.relevant_years
        IN /\ relevant_years
                = IF Len(relevant) > 0 /\ NoDurationData(probe.args.experiences)
                  THEN Estimate(probe.args.total_years)
                  ELSE TenureSum(relevant)
           /\ Len(relevant) = 0 => relevant_years = 0

\* C24 amended: relevant tenure is the sum of duration_months / 12 over the
\* relevant positions; the estimate min(total_years, 0.8 * total_years)
\* replaces it exactly when a relevant position was found and that sum is 0,
\* whatever durations the other positions carry; without relevant position
\* it is 0.
C24_EstimateWhenSumIsZero ==
    (Called("evaluate_experience") /\ ~probe.out.raised) =>
        LET relevant == RelevantAmong(probe.args.experiences, probe.args.job_requirements)
            relevant_years == probe.out.value.experience_match.relevant_years
        IN /\ relevant_years
                = IF Len(relevant) > 0 /\ TenureSum(relevant) = 0
                  THEN Estimate(probe.args.total_years)
                  ELSE TenureSum(relevant)
           /\ Len(relevant) = 0 => relevant_years = 0

\* the one relevant position has no duration while an irrelevant one has ten
\* years: 0.8 * 3 years are estimated
C24_Witness ==
    /\ Called("evaluate_experience")
    /\ probe.args.experiences = <<Exp_undated, Exp_cook>>
    /\ probe.args.total_years = 3600
    /\ ~probe.out.raised
    /\ probe.out.value.experience_match.relevant_positions = <<"Developer">>
    /\ probe.out.value.experience_match.relevant_years = 2880

\* the relevant tenure of the call was estimated, not summed
Estimated(experiences, job_requirements) ==
    /\ Len(RelevantAmong(experiences, job_requirements)) > 0
    /\ TenureSum(RelevantAmong(experiences, job_requirements)) = 0

\* C25: an ExperienceMatch whose relevant tenure was summed from position
\* durations (not estimated) has relevant_years <= total_years, total_years
\* being the total_experience_years of the resume, 0 when absent.
C25_RelevantWithinTotal ==
    (/\ Called("evaluate_experience")
     /\ ~probe.out.raised
     /\ ~Estimated(probe.args.experiences, probe.args.job_requirements))
        => /\ probe.out.value.experience_match.total_years = probe.args.total_years
           /\ probe.out.value.experience_match.relevant_years
                 <= probe.out.value.experience_match.total_years

\* the positions of the hierarchy table whose keyword is in the lowercased text
KeywordsIn(text) ==
    {k \in 1..Len(education_hierarchy_table) :
        Contains(Lower(text), education_hierarchy_table[k][1])}

\* the level of a text: the value of the first such keyword, 0 without one
LevelOf(text) ==
    IF KeywordsIn(text) = {} THEN 0
    ELSE education_hierarchy_table[CHOOSE k \in KeywordsIn(text) :
                                       \A other \in KeywordsIn(text) : k <= other][2]

\* substring relation or overlap ratio above 0.6, on the lowercased texts
FieldRelated(field_of_study, required) ==
    \/ Contains(Lower(required), Lower(field_of_study))
    \/ Contains(Lower(field_of_study), Lower(required))
    \/ SequenceRatio(Lower(field_of_study), Lower(required)) > 6000

\* C26: with required education, degree_match is true iff some entry has a
\* degree whose level is at least the level of some required entry, and
\* field_match is true iff the field of study of some entry, with or without
\* a degree, is related to some required string.
C26_DegreeAndFieldMatch ==
    (/\ Called("evaluate_education")
     /\ Len(probe.args.job_requirements.required_education) > 0
     /\ ~probe.out.raised)
        => LET education_list == probe.args.education_list
               required_education == probe.args.job_requirements.required_education
               education_match == probe.out.value.education_match
           IN /\ education_match.degree_match
                    <=> \E i \in 1..Len(education_list) :
                          /\ Len(OrEmpty(education_list[i].degree)) > 0
                          /\ \E r \in 1..Len(required_education) :
                                LevelOf(education_list[i].degree[1])
                                    >= LevelOf(required_education[r])
              /\ education_match.field_match
                    <=> \E i \in 1..Len(education_list) :
                          /\ Len(OrEmpty(education_list[i].field_of_study)) > 0
                          /\ \E r \in 1..Len(required_education) :
                                FieldRelated(education_list[i].field_of_study[1],
                                             required_education[r])

\* the education score of the four cases; has_data restricts the last case
EducationScoreRule(education_match, education_score, last_case) ==
    /\ (education_match.degree_match /\ education_match.field_match)
          => education_score = 1000000
    /\ (education_match.degree_match /\ ~education_match.field_match)
          => education_score = 700000
    /\ (~education_match.degree_match /\ education_match.field_match)
          => education_score = 500000
    /\ (~education_match.degree_match /\ ~education_match.field_match /\ last_case)
          => education_score = 200000
    /\ education_match.education_score = education_score

\* an empty resume against a job with required skills, years and education
EmptyAgainstFullJob ==
    /\ Called("evaluate_candidate")
    /\ probe.args.resume_data = ResumeDataDefaults
    /\ Len(probe.args.job_requirements.required_skills) > 0
    /\ OrZero(probe.args.job_requirements.required_experience_years) > 0
    /\ Len(probe.args.job_requirements.required_education) > 0

StartsWith(line, prefix) ==
    Len(line) >= Len(prefix) /\ SubSeq(line, 1, Len(prefix)) = prefix

\* some line of the list starts with the prefix
HasLine(lines, prefix) == \E i \in 1..Len(lines) : StartsWith(lines[i], prefix)

\* the required skills of the job whose entry is not matched, in job order
UnmatchedRequired(evaluation, job_requirements) ==
    SelectSeq(job_requirements.required_skills,
              LAMBDA skill : \E k \in 1..Len(evaluation.skill_matches) :
                                /\ evaluation.skill_matches[k].skill_name = skill
                                /\ ~evaluation.skill_matches[k].matched)

\* a line with the prefix is in the list iff the condition holds, and then it
\* is the given line
LineIff(lines, prefix, condition, line) ==
    /\ HasLine(lines, prefix) <=> condition
    /\ \A i \in 1..Len(lines) : StartsWith(lines[i], prefix) => lines[i] = line

GapLines(evaluation, job_requirements) ==
    LET required_years == OrZero(evaluation.experience_match.required_years) * 1200
        relevant_years == evaluation.experience_match.relevant_years
        unmatched == UnmatchedRequired(evaluation, job_requirements)
    IN /\ LineIff(evaluation.gap_analysis, "Missing required skills: ",
                  Len(unmatched) > 0,
                  "Missing required skills: " \o JoinWith(unmatched, ", "))
       /\ LineIff(evaluation.gap_analysis, "Needs ",
                  required_years > 0 /\ relevant_years < required_years,
                  "Needs " \o FormatYears(required_years - relevant_years)
                           \o " more years of relevant experience")
       /\ LineIff(evaluation.gap_analysis, "Education level",
                  Len(job_requirements.required_education) > 0
                      /\ ~evaluation.education_match.degree_match,
                  "Education level does not meet requirements")

\* C28: the gap analysis has a skills line iff some required skill is
\* unmatched, naming exactly the unmatched required skills; an experience line
\* iff required_years > 0 and relevant_years < required_years, stating the
\* difference; an education line iff the job requires education and
\* degree_match is false.
C28_GapAnalysisLines ==
    (Called("evaluate_candidate") /\ ~probe.out.raised) =>
        GapLines(probe.out.value, probe.args.job_requirements)

\* the summary tier of a returned overall score (1/100 point)
SummaryTier(overall_score) ==
    IF overall_score >= 8000 THEN "Excellent match - highly recommended candidate"
    ELSE IF overall_score >= 6000 THEN "Good match - recommended for consideration"
    ELSE IF overall_score >= 4000
    THEN "Moderate match - may be suitable with additional assessment"
    ELSE "Limited match - consider only if candidate pool is small"

\* C29: in every non-degraded result of evaluate_candidate the summary is the
\* tier of the overall_score the result holds: excellent from 80, good from 60
\* to below 80, moderate from 40 to below 60, limited below 40.
C29_SummaryFollowsReturnedScore ==
    (Called("evaluate_candidate") /\ ~probe.out.raised /\ ~IsDegraded(probe.out.value))
        => probe.out.value.evaluation_summary
              = SummaryTier(probe.out.value.overall_score)

\* the names of the entries matched with confidence above 0.8, in match order
StrongNames(skill_matches) ==
    LET strong == SelectSeq(skill_matches,
                            LAMBDA sm : sm.matched /\ sm.confidence_score > 8000)
    IN [i \in 1..Len(strong) |-> strong[i].skill_name]

FirstThree(names) == SubSeq(names, 1, IF Len(names) > 3 THEN 3 ELSE Len(names))

RecommendationLines(evaluation, job_requirements) ==
    LET names == StrongNames(evaluation.skill_matches)
        relevant_years == evaluation.experience_match.relevant_years
    IN /\ LineIff(evaluation.recommendations, "Strong skills: ",
                  Len(names) > 0,
                  "Strong skills: " \o JoinWith(FirstThree(names), ", "))
       /\ LineIff(evaluation.recommendations, "Has ",
                  relevant_years > 0,
                  "Has " \o FormatYears(relevant_years)
                         \o " years of relevant experience")
       /\ LineIff(evaluation.recommendations, "Education requirements met",
                  evaluation.education_match.degree_match,
                  "Education requirements met")
       /\ Len(job_requirements.required_education) = 0
             => InList("Education requirements met", evaluation.recommendations)

\* C30: the recommendations have a strong-skills line iff some job skill,
\* required or preferred, is matched with confidence > 0.8, naming at most the
\* first three of them in match order; an experience line iff relevant_years
\* > 0; an "Education requirements met" line iff degree_match is true, hence
\* always when the job requires no education.
C30_RecommendationLines ==
    (Called("evaluate_candidate") /\ ~probe.out.raised) =>
        RecommendationLines(probe.out.value, probe.args.job_requirements)

\* five skills are strong, two of them preferred: the first three are named,
\* next to the experience line and without education line
C30_Witness ==
    /\ Called("evaluate_candidate")
    /\ ~probe.out.raised
    /\ Len(StrongNames(probe.out.value.skill_matches)) = 5
    /\ probe.out.value.recommendations
          = <<"Strong skills: Python, SQL, AWS", "Has 0.5 years of relevant experience">>

====
